---- MODULE Spec2Model ----
(***************************************************************************)
(* The event-loop demonstration scripts of 05-event-loop-and-events run on *)
(* a single-threaded, phase-based cooperative scheduler.  The scripts are  *)
(* modelled from their source: every callback is the sequence of           *)
(* scheduling operations, console prints and busy-waits its body performs. *)
(* The scheduler they run on (phase ring, microtask drain, timer wheel) is *)
(* not part of the repository's sources; it is modelled from spec.md.      *)
(*                                                                         *)
(* The library functions of 04-npm-and-packages (truncate, slugify,        *)
(* satisfies) and the circular require of 03-modules-and-exports run       *)
(* without the event loop; they are checked under LibSpec.                 *)
(*                                                                         *)
(* The singleton and factory loggers of 03-modules-and-exports and the     *)
(* DataProcessor and TaskManager emitters of async-patterns.js are         *)
(* modelled as objects with their methods; they are checked under AppSpec. *)
(***************************************************************************)
EXTENDS Integers, Sequences, FiniteSets, TLC

VARIABLES
  script,        \* which demonstration script is running
  randomTime,    \* simulateRequest: the Math.random() delay of each request
  state,         \* run-loop state: Idle, DrainingMicrotasks, ExecutingPhase, Terminated
  phase,         \* index into Phases of the current phase (0 before run())
  pass,          \* number of the current ring pass (incremented on entering Timers)
  remaining,     \* callbacks of the current phase still to run in this visit
  queue,         \* phase name -> FIFO of handles (the phase TaskQueues)
  tickQ,         \* process.nextTick queue
  promiseQ,      \* Promise microtask queue
  timerWheel,    \* TimerEntry sequence ordered by (deadline, insertion)
  ioPending,     \* handles of I/O operations issued and not yet completed
  watchers,      \* handles of active file watchers
  failed,        \* handles of I/O operations that completed with an error
  fileExists,    \* the temporary / sample file is on disk
  now,           \* the clock, in ms
  info,          \* handle -> the Callback it names (handle 1 is the main script)
  cancelled,     \* handles cancelled before execution
  running,       \* handle of the callback whose body is executing, or None
  pc,            \* index of the next operation of the running body
  blockStart,    \* start time of the busy-wait in progress, or -1
  lastWorkPass,  \* ring pass in which a callback last returned
  timerSeq,      \* number of TimerWheel insertions so far
  lastCheck,     \* monitorEventLoopLag: time of the previous lag check
  trace,         \* what happened, in order: callback starts, ends and prints
  call,          \* the library call under test: function, arguments, result
  cache,         \* require.cache: module -> its module.exports object, loaded flag
  heap,          \* object id -> the property names of that exports object
  locals,        \* module -> the object its const moduleA / moduleB is bound to
  frames,        \* the call stack of module bodies and functions
  console,       \* the lines written by console.log while modules load
  program,       \* which object program is running: singleton, factory, emitters
  instance,      \* logger.singleton: the instance variable (0 is undefined)
  objects,       \* number of objects initialize() has created
  logHistory,    \* logger.singleton: the logHistory array
  references,    \* what the calls of getInstance() returned, in order
  date,          \* the clock read by new Date()
  loggers,       \* the closures createLogger() made: name, level, logCount
  output,        \* the lines the factory loggers wrote to the console
  mode,          \* TaskManager run: sequential or parallel
  manager,       \* the TaskManager's fields
  tasks,         \* the AsyncTask objects added to the manager
  processor,     \* the DataProcessor's fields
  timers,        \* the setTimeout callbacks pending, in firing order
  emitted        \* the events emitted and the methods called, in order

\* the state of the event-loop scripts
loopVars == <<script, randomTime, state, phase, pass, remaining, queue, tickQ,
              promiseQ, timerWheel, ioPending, watchers, failed, fileExists,
              now, info, cancelled, running, pc, blockStart, lastWorkPass,
              lastCheck, timerSeq, trace>>

\* the state of the library programs
libVars == <<call, cache, heap, locals, frames, console>>

\* the state of the object programs
appVars == <<program, instance, objects, logHistory, references, date, loggers,
             output, mode, manager, tasks, processor, timers, emitted>>

vars == <<loopVars, libVars, appVars>>

None == 0
MainHandle == 1

\* Granularity of the modelled clock, in ms.
TickMs == 100

\* An I/O operation completes at most this many clock ticks after it was issued.
MaxIoTicks == 2

Phases == <<"Timers", "PendingCompletions", "Poll", "Check", "CloseCallbacks">>

PhaseName == IF phase = 0 THEN "none" ELSE Phases[phase]

\* a variant that passes over a phase whose queue is empty
NextPhaseSkipsEmpty(p) ==
  LET n == IF p = Len(Phases) THEN 1 ELSE p + 1
  IN  IF n \in 2..(Len(Phases) - 1) /\ queue[Phases[n]] = << >> THEN n + 1 ELSE n

NextPhase(p) == IF p = Len(Phases) THEN 1 ELSE p + 1

EmptyQueues == [p \in {Phases[i] : i \in 1..Len(Phases)} |-> <<>>]

----------------------------------------------------------------------------
(* Operations a callback body can perform. *)

Op(o, f, a, m, s) == [op |-> o, fn |-> f, arg |-> a, ms |-> m, msg |-> s]

setTimeout(f, a, ms) == Op("setTimeout", f, a, ms, "")
setInterval(f, a, ms) == Op("setInterval", f, a, ms, "")
clearInterval(f) == Op("clearInterval", f, 0, 0, "")
clearTimeout(f) == Op("clearTimeout", f, 0, 0, "")
setImmediate(f, a) == Op("setImmediate", f, a, 0, "")
nextTick(f, a) == Op("nextTick", f, a, 0, "")
promiseThen(f, a) == Op("promiseThen", f, a, 0, "")
readFile(f) == Op("readFile", f, 0, 0, "")
createReadStream(f) == Op("createReadStream", f, 0, 0, "")
streamDestroy(f) == Op("streamDestroy", f, 0, 0, "")
watch(f) == Op("watch", f, 0, 0, "")
unwatch(f) == Op("unwatch", f, 0, 0, "")
modifyFile == Op("modifyFile", "", 0, 0, "")
unlink == Op("unlink", "", 0, 0, "")
writeFile == Op("writeFile", "", 0, 0, "")
startLag == Op("lag", "start", 0, 0, "")
measureLag(ms) == Op("lag", "measure", 0, ms, "")
print(s) == Op("print", "", 0, 0, s)
printN(s, n) == Op("print", "", n, 0, s)
busyWait(ms) == Op("busyWait", "", 0, ms, "")
\* emitter.emit(event, ...) on an emitter with that many listeners for event
emit(event, listeners) == Op("emit", event, listeners, 0, "")
throw == Op("throw", "", 0, 0, "")

----------------------------------------------------------------------------
(* event-loop-basics.js *)

\* Math.floor(Math.random() * 100) + 10 ranges over 10..109; the two
\* extremes fall before and after the 100 ms of Timer 1.
RandomTimes == {10, 109}

simulateRequest(requestId) ==
  << printN("Request: Starting", requestId),
     setTimeout("request", requestId, randomTime[requestId]) >>

\* a variant that defers the nextTick callback with setImmediate
executionOrderPartImmediate ==
  << setTimeout("setTimeout0", 0, 0),
     setImmediate("setImmediate", 0),
     setImmediate("nextTick", 0),
     promiseThen("promise", 0) >>

\* PART 1: one callback of each kind
executionOrderPart ==
  << setTimeout("setTimeout0", 0, 0),
     setImmediate("setImmediate", 0),
     nextTick("nextTick", 0),
     promiseThen("promise", 0) >>

BasicsMain ==
  << print("Starting the program") >>
  \o executionOrderPart
  \o << print("regular synchronous code"),
     setTimeout("timer1", 0, 100),
     setTimeout("timer2", 0, 0),
     setTimeout("timer3", 0, 0),
     readFile("fileRead"),
     print("Simulating multiple concurrent server requests") >>
  \o simulateRequest(1) \o simulateRequest(2) \o simulateRequest(3)
  \o simulateRequest(4) \o simulateRequest(5)
  \o << print("Main script execution completed") >>

BasicsTimer1 ==
  << print("Timer 1 executed (100ms)"),
     nextTick("timer1NextTick", 0) >>

\* a variant that schedules both nested callbacks with setTimeout(..., 0)
BasicsFileReadTwoTimers ==
  << print("File read completed"),
     setTimeout("fileReadTimer", 0, 0),
     setTimeout("fileReadImmediate", 0, 0) >>

BasicsFileRead ==
  << print("File read completed"),
     setTimeout("fileReadTimer", 0, 0),
     setImmediate("fileReadImmediate", 0) >>

BasicsRequest(requestId) ==
  << printN("Request: Completed", requestId) >>
  \o (IF requestId = 3
        THEN << printN("Request: Running CPU-intensive task", requestId),
                busyWait(100),
                printN("Request: CPU-intensive task completed", requestId) >>
        ELSE << >>)

BasicsBody(fn, arg) ==
  CASE fn = "main" -> BasicsMain
    [] fn = "setTimeout0" -> << print("from setTimeout (timer phase)") >>
    [] fn = "setImmediate" -> << print("from setImmediate (check phase)") >>
    [] fn = "nextTick" -> << print("from process.nextTick") >>
    [] fn = "promise" -> << print("from a resolved Promise (microtask)") >>
    [] fn = "timer1" -> BasicsTimer1
    [] fn = "timer1NextTick" -> << print("nextTick inside Timer 1") >>
    [] fn = "timer2" -> << print("Timer 2 executed (0ms)") >>
    [] fn = "timer3" -> << print("Timer 3 executed (0ms)") >>
    [] fn = "fileRead" -> BasicsFileRead
    [] fn = "fileReadTimer" -> << print("Timer inside File read callback") >>
    [] fn = "fileReadImmediate" -> << print("Immediate inside File read callback") >>
    [] fn = "request" -> BasicsRequest(arg)

----------------------------------------------------------------------------
(* event-loop-phases.js *)

PhasesMain ==
  << print("Starting the event loop phases demonstration"),
     writeFile,
     setTimeout("timer100", 0, 100),
     setTimeout("timer0", 0, 0),
     readFile("fileRead"),
     setImmediate("immediate", 0),
     createReadStream("streamReadable"),
     nextTick("nextTick", 0),
     promiseThen("promise", 0),
     setTimeout("testTimeout", 1, 0),
     setImmediate("testImmediate", 1),
     setTimeout("testTimeout", 2, 0),
     setImmediate("testImmediate", 2),
     setTimeout("testTimeout", 3, 0),
     setImmediate("testImmediate", 3),
     print("Main script"),
     setTimeout("final", 0, 1000) >>

\* a variant that defers the nested callback with setImmediate
PhasesTimer0Immediate ==
  << print("Timer (0ms)"),
     setImmediate("timer0NextTick", 0) >>

PhasesTimer0 ==
  << print("Timer (0ms)"),
     nextTick("timer0NextTick", 0) >>

PhasesFileRead(err) ==
  IF err
    THEN << print("Error reading file") >>
    ELSE << print("I/O (fs.readFile)"),
            nextTick("ioNextTick", 0),
            setImmediate("ioImmediate", 0),
            setTimeout("ioTimer", 0, 0) >>

PhasesImmediate ==
  << print("setImmediate"),
     nextTick("immediateNextTick", 0) >>

PhasesStreamReadable ==
  << print("Stream received data"),
     streamDestroy("streamClose") >>

PhasesStreamClose ==
  << print("Close event"),
     unlink,
     print("Temporary file deleted") >>

PhasesBody(fn, arg, err) ==
  CASE fn = "main" -> PhasesMain
    [] fn = "timer100" -> << print("Timer (100ms)") >>
    [] fn = "timer0" -> PhasesTimer0
    [] fn = "timer0NextTick" -> << print("nextTick inside Timer") >>
    [] fn = "fileRead" -> PhasesFileRead(err)
    [] fn = "ioNextTick" -> << print("nextTick inside I/O") >>
    [] fn = "ioImmediate" -> << print("setImmediate inside I/O") >>
    [] fn = "ioTimer" -> << print("Timer inside I/O") >>
    [] fn = "immediate" -> PhasesImmediate
    [] fn = "immediateNextTick" -> << print("nextTick inside setImmediate") >>
    [] fn = "streamReadable" -> PhasesStreamReadable
    [] fn = "streamClose" -> PhasesStreamClose
    [] fn = "nextTick" -> << print("nextTick") >>
    [] fn = "promise" -> << print("Promise") >>
    [] fn = "testTimeout" -> << printN("Test: setTimeout(0) executing", arg) >>
    [] fn = "testImmediate" -> << printN("Test: setImmediate executing", arg) >>
    [] fn = "final" -> << print("FINAL EXECUTION ORDER") >>

----------------------------------------------------------------------------
(* avoiding-blocking.js *)

ArrayLength == 10000000
ChunkSize == 1000000

Min(a, b) == IF a <= b THEN a ELSE b

blockingOperation(duration) ==
  << print("Starting a blocking operation"),
     busyWait(duration),
     print("Blocking operation completed") >>

nonBlockingOperation(duration) ==
  << print("Starting a non-blocking operation"),
     setTimeout("nonBlockingDone", 0, duration),
     print("Non-blocking operation initiated and returned immediately") >>

processArrayInChunks ==
  << print("Processing array in chunks"),
     setImmediate("processChunk", 0) >>

\* a variant that reschedules itself with process.nextTick
processChunkNextTick(index) ==
  LET end == Min(index + ChunkSize, ArrayLength)
  IN  IF end < ArrayLength
        THEN (IF end % (ChunkSize * 10) = 0
                THEN << printN("Progress", end) >>
                ELSE << >>)
             \o << nextTick("processChunk", end) >>
        ELSE << printN("Finished processing", end),
                print("Callback received the result") >>

\* index is the value of the closure variable when the chunk starts
processChunk(index) ==
  LET end == Min(index + ChunkSize, ArrayLength)
  IN  IF end < ArrayLength
        THEN (IF end % (ChunkSize * 10) = 0
                THEN << printN("Progress", end) >>
                ELSE << >>)
             \o << setImmediate("processChunk", end) >>
        ELSE << printN("Finished processing", end),
                print("Callback received the result") >>

\* a variant that runs the stringify callback synchronously
stringifySynchronously ==
  << print("In a real application, you would"),
     print("Starting non-blocking JSON.stringify (simulated)"),
     print("Stringified"),
     print("Non-blocking stringify completed successfully"),
     print("Scheduled JSON.stringify for later, continuing execution") >>

stringifyNonBlocking ==
  << print("In a real application, you would"),
     print("Starting non-blocking JSON.stringify (simulated)"),
     setTimeout("stringify", 0, 0),
     print("Scheduled JSON.stringify for later, continuing execution") >>

monitorEventLoopLag ==
  << startLag,
     setInterval("lagCheck", 0, 100),
     setTimeout("stopMonitor", 0, 10000),
     print("Started monitoring event loop lag") >>

\* a variant that forgets to clear the interval
stopMonitoringKeepsInterval ==
  << print("Event loop monitoring stopped") >>

\* the 10 s timer of monitorEventLoopLag
stopMonitoring ==
  << clearInterval("lagCheck"),
     print("Event loop monitoring stopped") >>

\* a variant with the two delays exchanged
delayedTimersSwapped ==
  << setTimeout("after100", 0, 200),
     setTimeout("after200", 0, 100) >>

\* the two timers that the first blocking operation delays
delayedTimers ==
  << setTimeout("after100", 0, 100),
     setTimeout("after200", 0, 200) >>

AvoidMain ==
  << print("AVOIDING BLOCKING THE EVENT LOOP") >>
  \o delayedTimers
  \o << print("Running a blocking operation that will delay all other events") >>
  \o blockingOperation(500)
  \o << print("After blocking operation completed") >>
  \o nonBlockingOperation(500)
  \o << print("This code runs immediately after starting the non-blocking operation"),
        setTimeout("notDelayed100", 0, 100) >>
  \o processArrayInChunks
  \o << print("This code runs immediately after starting the non-blocking array processing"),
        setTimeout("duringProcessing", 0, 100) >>
  \o stringifyNonBlocking
  \o << print("This code runs immediately after starting the non-blocking stringify") >>
  \o monitorEventLoopLag
  \o << setTimeout("block200", 0, 1000),
        setTimeout("block300", 0, 3000),
        setTimeout("takeaways", 0, 5000) >>

AvoidBody(fn, arg) ==
  CASE fn = "main" -> AvoidMain
    [] fn = "after100" -> << print("This should execute after 100ms") >>
    [] fn = "after200" -> << print("This should execute after 200ms") >>
    [] fn = "nonBlockingDone" ->
         << print("Non-blocking operation completed"),
            print("This is the callback after non-blocking operation") >>
    [] fn = "notDelayed100" -> << print("This 100ms timeout will not be delayed") >>
    [] fn = "processChunk" -> processChunk(arg)
    [] fn = "duringProcessing" ->
         << print("This timeout will execute during array processing") >>
    [] fn = "stringify" ->
         << print("Stringified"),
            print("Non-blocking stringify completed successfully") >>
    [] fn = "lagCheck" -> << measureLag(100) >>
    [] fn = "stopMonitor" -> stopMonitoring
    [] fn = "block200" ->
         << print("Causing an intentional 200ms block") >> \o blockingOperation(200)
    [] fn = "block300" ->
         << print("Causing another intentional 300ms block") >> \o blockingOperation(300)
    [] fn = "takeaways" -> << print("KEY TAKEAWAYS") >>

----------------------------------------------------------------------------
(* async-patterns.js, as far as it schedules work on the loop *)

SampleDataLength == 5
TaskCount == 4

\* task3 ('Save results') is constructed with shouldSucceed = false
shouldSucceed(i) == i # 2

\* DataProcessor._processNextChunk(index)
processNextChunk(index) ==
  IF index >= SampleDataLength
    THEN << printN("Processing complete", SampleDataLength) >>
    ELSE << setTimeout("chunk", index, 200) >>

\* AsyncTask.execute() of tasks[i]
execute(i) ==
  << printN("Task starting", i),
     setTimeout("task", i, 1000) >>

\* TaskManager._runNextTask() with currentIndex = i
runNextTask(i) ==
  IF i >= TaskCount
    THEN << printN("All tasks finished", i) >>
    ELSE execute(i)

\* TaskManager._checkAllComplete() after tasks 0..i have settled
checkAllComplete(i) ==
  IF i + 1 = TaskCount
    THEN << printN("All tasks finished", i + 1) >>
    ELSE << >>

AsyncMain ==
  << print("ASYNCHRONOUS PATTERNS WITH EVENTS"),
     writeFile,
     watch("watchFile"),
     watch("watcherChange"),
     setTimeout("modify", 0, 1000),
     print("Starting data processing"),
     printN("Processing started", SampleDataLength) >>
  \o processNextChunk(0)
  \o << print("Running tasks sequentially"),
        printN("Starting to execute tasks", TaskCount) >>
  \o runNextTask(0)
  \o << setTimeout("cleanup", 0, 8000) >>

AsyncChunk(index) ==
  << printN("Processed item", index),
     printN("Progress", index + 1) >>
  \o processNextChunk(index + 1)

\* _setupTaskListeners registers one 'error' listener on every task
AsyncTask(i) ==
  (IF shouldSucceed(i) THEN << printN("Task completed", i) >>
                       ELSE << emit("error", 1), printN("Task failed", i) >>)
  \o runNextTask(i + 1)
  \o checkAllComplete(i)
  \o << printN("Task end", i) >>

\* a variant that never closes the fs.watch watcher
AsyncCleanupKeepsWatcher ==
  << print("Key takeaways on async patterns with events"),
     unwatch("watchFile"),
     unlink,
     print("Cleaned up file watchers and sample file") >>

AsyncCleanup ==
  << print("Key takeaways on async patterns with events"),
     unwatch("watcherChange"),
     unwatch("watchFile"),
     unlink,
     print("Cleaned up file watchers and sample file") >>

AsyncBody(fn, arg) ==
  CASE fn = "main" -> AsyncMain
    [] fn = "watchFile" -> << print("Callback: File was modified") >>
    [] fn = "watcherChange" -> << print("Event: File triggered a change event") >>
    [] fn = "modify" ->
         << modifyFile, print("Modified the file to trigger watchers") >>
    [] fn = "chunk" -> AsyncChunk(arg)
    [] fn = "task" -> AsyncTask(arg)
    [] fn = "cleanup" -> AsyncCleanup

----------------------------------------------------------------------------
(* Test scenarios of the scheduler contract: cancellation and a throwing
   callback.  No script of the repository cancels a callback twice or lets an
   error go unhandled. *)

ScenarioCancelMain ==
  << setTimeout("victim", 0, 100),
     setTimeout("survivor", 0, 100),
     setImmediate("canceller", 0),
     setTimeout("lateCanceller", 0, 200),
     print("submitted") >>

ScenarioThrowMain ==
  << setTimeout("thrower", 0, 0),
     setTimeout("afterThrow", 0, 0),
     setImmediate("afterThrow", 1),
     print("submitted") >>

\* a Promise callback submitted before a process.nextTick callback
ScenarioMicrotasksMain ==
  << promiseThen("promiseFirst", 0),
     nextTick("tickSecond", 0),
     print("submitted") >>

\* the failure of the thrower: a throw statement, or an unheard 'error' event
Failure == IF script = "throw" THEN throw ELSE emit("error", 0)

ScenarioBody(fn, arg) ==
  CASE fn = "main" -> IF script = "cancel" THEN ScenarioCancelMain
                      ELSE IF script = "microtasks" THEN ScenarioMicrotasksMain
                      ELSE ScenarioThrowMain
    [] fn = "promiseFirst" -> << print("Promise callback executing") >>
    [] fn = "tickSecond" ->
         << nextTick("tickNested", 0), print("nextTick callback executing") >>
    [] fn = "tickNested" -> << print("nested nextTick callback executing") >>
    [] fn = "victim" -> << print("victim executed") >>
    [] fn = "survivor" ->
         << clearTimeout("survivor"), print("survivor executed") >>
    [] fn = "canceller" ->
         << clearTimeout("victim"), clearTimeout("victim"),
            print("cancelled twice") >>
    [] fn = "lateCanceller" ->
         << clearTimeout("survivor"), clearTimeout("victim"),
            print("cancelled late") >>
    [] fn = "thrower" ->
         << nextTick("afterThrow", 2), Failure, print("after the failure") >>
    [] fn = "afterThrow" -> << printN("callback after the failure", arg) >>

Scenarios == {"cancel", "throw", "emitError", "microtasks"}

----------------------------------------------------------------------------
Scripts == {"basics", "phases", "avoid", "async"}

\* The body of the callback named by handle h.
Body(h) ==
  LET c == info[h]
  IN  CASE script = "basics" -> BasicsBody(c.fn, c.arg)
        [] script = "phases" -> PhasesBody(c.fn, c.arg, h \in failed)
        [] script = "avoid" -> AvoidBody(c.fn, c.arg)
        [] script = "async" -> AsyncBody(c.fn, c.arg)
        [] script \in Scenarios -> ScenarioBody(c.fn, c.arg)

----------------------------------------------------------------------------
(* The scheduler: data model *)

Max(a, b) == IF a >= b THEN a ELSE b

Callback(k, o, d) ==
  [kind |-> k, fn |-> o.fn, arg |-> o.arg, parent |-> running, ms |-> o.ms,
   deadline |-> d, seq |-> IF k \in {"timeout", "interval"} THEN timerSeq + 1 ELSE 0]

NewHandle == Len(info) + 1

\* the most recently created handle whose callback is fn
HandleOf(fn) ==
  LET hs == {h \in 1..Len(info) : info[h].fn = fn}
  IN  CHOOSE h \in hs : \A g \in hs : g <= h

Event(e, h, s, n) ==
  [ev |-> e, h |-> h, msg |-> s, n |-> n, pass |-> pass, t |-> now,
   d |-> info[h].deadline, q |-> info[h].seq]

\* TimerWheel.insert: after every entry whose deadline is not later
insert(wheel, h, deadline) ==
  LET k == Cardinality({i \in 1..Len(wheel) : wheel[i].deadline <= deadline})
  IN  SubSeq(wheel, 1, k) \o << [h |-> h, deadline |-> deadline] >>
        \o SubSeq(wheel, k + 1, Len(wheel))

\* length of the maximal prefix of the wheel with deadline <= t
ReadyCount(wheel, t) ==
  IF \E i \in 1..Len(wheel) : wheel[i].deadline > t
    THEN (CHOOSE i \in 1..Len(wheel) :
            /\ wheel[i].deadline > t
            /\ \A j \in 1..(i - 1) : wheel[j].deadline <= t) - 1
    ELSE Len(wheel)

\* TimerWheel.removeReady: the callbacks of that prefix, in order
removeReady(wheel, t) ==
  [i \in 1..ReadyCount(wheel, t) |-> wheel[i].h]

Without(q, h) == SelectSeq(q, LAMBDA x : x # h)

WheelWithout(wheel, h) == SelectSeq(wheel, LAMBDA e : e.h # h)

MicrotasksEmpty == tickQ = << >> /\ promiseQ = << >>

\* a variant in which the loop does not wait for the running callback
LoopPreempts ==
  /\ state \in {"DrainingMicrotasks", "ExecutingPhase"}
  /\ MicrotasksEmpty

LoopHasControl ==
  /\ running = None
  /\ state \in {"DrainingMicrotasks", "ExecutingPhase"}
  /\ MicrotasksEmpty

\* the current phase has a callback to run in this visit
Runnable ==
  /\ phase > 0
  /\ queue[PhaseName] # << >>
  /\ (remaining > 0 \/ PhaseName = "Poll")

\* outstanding work that keeps the loop from terminating
Alive ==
  \/ timerWheel # << >>
  \/ ioPending # {}
  \/ watchers # {}
  \/ \E i \in 1..Len(Phases) : queue[Phases[i]] # << >>

\* the loop is suspended in Poll until a deadline elapses or I/O completes
Waiting ==
  /\ LoopHasControl
  /\ PhaseName = "Poll"
  /\ \A i \in 1..Len(Phases) : queue[Phases[i]] = << >>
  /\ Alive
  /\ ReadyCount(timerWheel, now) = 0

\* the structures that can hold a pending callback
Structures ==
  [timerWheel |-> timerWheel, queue |-> queue, ioPending |-> ioPending,
   watchers |-> watchers, cancelled |-> cancelled]

\* h is held by some structure of S, or is the repeating timer now executing
PendingIn(S, h) ==
  \/ \E i \in 1..Len(S.timerWheel) : S.timerWheel[i].h = h
  \/ \E i \in 1..Len(Phases) : \E k \in 1..Len(S.queue[Phases[i]]) :
        S.queue[Phases[i]][k] = h
  \/ h \in S.ioPending \cup S.watchers
  \/ h = running /\ info[h].kind = "interval" /\ h \notin S.cancelled

Pending(h) == PendingIn(Structures, h)

\* a variant that reports success for every handle it knows
cancelAlwaysTrue(S, h) ==
  [ret |-> TRUE,
   s |-> [timerWheel |-> WheelWithout(S.timerWheel, h),
          queue |-> [p \in DOMAIN S.queue |-> Without(S.queue[p], h)],
          ioPending |-> S.ioPending \ {h},
          watchers |-> S.watchers \ {h},
          cancelled |-> S.cancelled \cup {h}]]

\* cancel(handle) -> bool: the return value and the structures afterwards
cancel(S, h) ==
  IF PendingIn(S, h)
    THEN [ret |-> TRUE,
          s |-> [timerWheel |-> WheelWithout(S.timerWheel, h),
                 queue |-> [p \in DOMAIN S.queue |-> Without(S.queue[p], h)],
                 ioPending |-> S.ioPending \ {h},
                 watchers |-> S.watchers \ {h},
                 cancelled |-> S.cancelled \cup {h}]]
    ELSE [ret |-> FALSE, s |-> S]

InBody == running # None /\ pc <= Len(Body(running))

CurOp == Body(running)[pc]

----------------------------------------------------------------------------
(* creating-package/index.js: string utilities.  A string is the sequence of
   its characters. *)

UpperCaseLetters ==
  << "A", "B", "C", "D", "E", "F", "G", "H", "I", "J", "K", "L", "M",
     "N", "O", "P", "Q", "R", "S", "T", "U", "V", "W", "X", "Y", "Z" >>

LowerCaseLetters ==
  << "a", "b", "c", "d", "e", "f", "g", "h", "i", "j", "k", "l", "m",
     "n", "o", "p", "q", "r", "s", "t", "u", "v", "w", "x", "y", "z" >>

DecimalDigits == << "0", "1", "2", "3", "4", "5", "6", "7", "8", "9" >>

Range(seq) == {seq[i] : i \in 1..Len(seq)}

IndexOf(seq, c) == CHOOSE i \in 1..Len(seq) : seq[i] = c

\* the regular-expression class \s
IsWhitespace(c) == c \in {" ", "\t", "\n"}

\* the regular-expression class \w
IsWordChar(c) ==
  c \in Range(UpperCaseLetters) \cup Range(LowerCaseLetters)
         \cup Range(DecimalDigits) \cup {"_"}

IsHyphen(c) == c = "-"

toLowerCase(str) ==
  [i \in 1..Len(str) |->
     IF str[i] \in Range(UpperCaseLetters)
       THEN LowerCaseLetters[IndexOf(UpperCaseLetters, str[i])]
       ELSE str[i]]

\* length of the maximal run of characters satisfying Class at the head of str
RunLength(str, Class(_)) ==
  LET others == {i \in 1..Len(str) : ~Class(str[i])}
  IN  IF others = {} THEN Len(str)
      ELSE (CHOOSE i \in others : \A j \in others : i <= j) - 1

\* str.replace(/C{min,}/g, replacement) for a character class C: scanning
\* from the left, every maximal run of at least min characters of C is replaced
replaceAll(str, Class(_), min, replacement) ==
  LET RECURSIVE from(_)
      from(i) ==
        IF i > Len(str) THEN << >>
        ELSE LET n == RunLength(SubSeq(str, i, Len(str)), Class)
             IN  IF n >= min /\ n > 0
                   THEN replacement \o from(i + n)
                   ELSE << str[i] >> \o from(i + 1)
  IN  from(1)

\* str.replace(/^-+/, '')
trimLeadingHyphens(str) ==
  SubSeq(str, RunLength(str, IsHyphen) + 1, Len(str))

Reverse(str) == [i \in 1..Len(str) |-> str[Len(str) + 1 - i]]

\* str.replace(/-+$/, '')
trimTrailingHyphens(str) ==
  SubSeq(str, 1, Len(str) - RunLength(Reverse(str), IsHyphen))

IsSpecial(c) == ~(IsWordChar(c) \/ IsHyphen(c))

DefaultMaxLength == 30

truncate(str, maxLength) ==
  IF Len(str) <= maxLength THEN str
  ELSE SubSeq(str, 1, maxLength) \o << ".", ".", "." >>

\* a variant that collapses the hyphens before it removes special characters
slugifyCollapsesFirst(str) ==
  trimTrailingHyphens(
    trimLeadingHyphens(
      replaceAll(
        replaceAll(
          replaceAll(toLowerCase(str), IsWhitespace, 1, << "-" >>),
          IsHyphen, 2, << "-" >>),
        IsSpecial, 1, << >>)))

slugify(str) ==
  trimTrailingHyphens(
    trimLeadingHyphens(
      replaceAll(
        replaceAll(
          replaceAll(toLowerCase(str), IsWhitespace, 1, << "-" >>),
          IsSpecial, 1, << >>),
        IsHyphen, 2, << "-" >>)))

(* the strings of __tests__/index.test.js and examples/usage.js *)

longStr ==
  << "T", "h", "i", "s", " ", "i", "s", " ", "a", " ", "v", "e", "r", "y",
     " ", "l", "o", "n", "g", " ", "s", "t", "r", "i", "n", "g", " ", "t",
     "h", "a", "t", " ", "s", "h", "o", "u", "l", "d", " ", "b", "e", " ",
     "t", "r", "u", "n", "c", "a", "t", "e", "d" >>

longStrTruncated ==
  << "T", "h", "i", "s", " ", "i", "s", " ", "a", " ", "v", "e", "r", "y",
     " ", "l", "o", "n", "g", ".", ".", "." >>

shortStr ==
  << "S", "h", "o", "r", "t", " ", "s", "t", "r", "i", "n", "g" >>

longerThanThirty ==
  << "T", "h", "i", "s", " ", "i", "s", " ", "a", " ", "s", "t", "r", "i",
     "n", "g", " ", "t", "h", "a", "t", " ", "i", "s", " ", "l", "o", "n",
     "g", "e", "r", " ", "t", "h", "a", "n", " ", "t", "h", "i", "r", "t",
     "y", " ", "c", "h", "a", "r", "a", "c", "t", "e", "r", "s", " ", "a",
     "n", "d", " ", "s", "h", "o", "u", "l", "d", " ", "b", "e", " ", "t",
     "r", "u", "n", "c", "a", "t", "e", "d" >>

longerThanThirtyTruncated ==
  << "T", "h", "i", "s", " ", "i", "s", " ", "a", " ", "s", "t", "r", "i",
     "n", "g", " ", "t", "h", "a", "t", " ", "i", "s", " ", "l", "o", "n",
     "g", "e", "r", ".", ".", "." >>

articleTitle ==
  << "T", "h", "e", " ", "T", "o", "p", " ", "1", "0", " ", "J", "a", "v",
     "a", "S", "c", "r", "i", "p", "t", " ", "L", "i", "b", "r", "a", "r",
     "i", "e", "s", " ", "Y", "o", "u", " ", "S", "h", "o", "u", "l", "d",
     " ", "K", "n", "o", "w", " ", "i", "n", " ", "2", "0", "2", "3" >>

testString ==
  << "T", "h", "i", "s", " ", "i", "s", " ", "a", " ", "T", "e", "s", "t",
     " ", "S", "t", "r", "i", "n", "g", "!" >>

testStringSlug ==
  << "t", "h", "i", "s", "-", "i", "s", "-", "a", "-", "t", "e", "s", "t",
     "-", "s", "t", "r", "i", "n", "g" >>

productName ==
  << "P", "r", "o", "d", "u", "c", "t", " ", "N", "a", "m", "e", " ", "(",
     "S", "p", "e", "c", "i", "a", "l", " ", "E", "d", "i", "t", "i", "o",
     "n", ")", " ", "@", " ", "$", "9", "9" >>

productNameSlug ==
  << "p", "r", "o", "d", "u", "c", "t", "-", "n", "a", "m", "e", "-", "s",
     "p", "e", "c", "i", "a", "l", "-", "e", "d", "i", "t", "i", "o", "n",
     "-", "9", "9" >>

multipleSpaces ==
  << "M", "u", "l", "t", "i", "p", "l", "e", " ", " ", " ", "s", "p", "a",
     "c", "e", "s", " ", "&", " ", " ", "s", "p", "e", "c", "i", "a", "l",
     " ", "-", "-", " ", "c", "h", "a", "r", "s" >>

multipleSpacesSlug ==
  << "m", "u", "l", "t", "i", "p", "l", "e", "-", "s", "p", "a", "c", "e",
     "s", "-", "s", "p", "e", "c", "i", "a", "l", "-", "c", "h", "a", "r",
     "s" >>

trimHyphens ==
  << "-", " ", "T", "r", "i", "m", " ", "h", "y", "p", "h", "e", "n", "s",
     " ", "-" >>

trimHyphensSlug ==
  << "t", "r", "i", "m", "-", "h", "y", "p", "h", "e", "n", "s" >>

userInput ==
  << "U", "s", "e", "r", " ", "I", "n", "p", "u", "t", " ", "W", "i", "t",
     "h", " ", "S", "p", "e", "c", "i", "a", "l", " ", "C", "h", "a", "r",
     "a", "c", "t", "e", "r", "s", " ", "@", "#", "$", " ", "(", "E", "x",
     "a", "m", "p", "l", "e", ")" >>

\* Longest generated input string.
MaxStrLen == 4

\* every string over the alphabet of at most n characters
Strings(alphabet, n) == UNION {[1..k -> alphabet] : k \in 0..n}

TruncateStrings ==
  {longStr, shortStr, longerThanThirty, articleTitle,
   SubSeq(longerThanThirty, 1, DefaultMaxLength),
   SubSeq(longerThanThirty, 1, DefaultMaxLength + 1)}
    \cup Strings({"a", " "}, MaxStrLen)

\* truncate(str, maxLength) and truncate(str)
TruncateInputs ==
  {<< str, maxLength >> :
     str \in TruncateStrings, maxLength \in 0..(MaxStrLen + 1) \cup {15, 20, 25}}
    \cup {<< str >> : str \in TruncateStrings}

SlugifyInputs ==
  {testString, productName, multipleSpaces, trimHyphens, userInput,
   articleTitle}
    \cup Strings({"A", "b", "1", "_", " ", "-", "!"}, MaxStrLen)

----------------------------------------------------------------------------
(* semantic-versioning/semver-demo.js: satisfies(version, range) *)

YES == "YES"
NO == "NO"
UNKNOWN == "UNKNOWN (complex range)"

\* str.split(sep) for a one-character separator
RECURSIVE split(_, _)
split(str, sep) ==
  LET seps == {i \in 1..Len(str) : str[i] = sep}
  IN  IF seps = {} THEN << str >>
      ELSE LET k == CHOOSE i \in seps : \A j \in seps : i <= j
           IN  << SubSeq(str, 1, k - 1) >>
                 \o split(SubSeq(str, k + 1, Len(str)), sep)

\* Number(str) for a string of decimal digits
RECURSIVE Number(_)
Number(str) ==
  IF str = << >> THEN 0
  ELSE 10 * Number(SubSeq(str, 1, Len(str) - 1))
         + (IndexOf(DecimalDigits, str[Len(str)]) - 1)

\* !range.match(/[\^~<>=*]/)
IsExactVersion(range) ==
  ~\E i \in 1..Len(range) : range[i] \in {"^", "~", "<", ">", "=", "*"}

\* the caret branch: the condition under which it returns YES
caret(major, minor, patch, vMajor, vMinor, vPatch) ==
  IF major = 0
    THEN IF minor = 0
           THEN vMajor = 0 /\ vMinor = 0 /\ vPatch >= patch
           ELSE vMajor = 0 /\ vMinor = minor /\ vPatch >= patch
    ELSE vMajor = major
           /\ (vMinor > minor \/ (vMinor = minor /\ vPatch >= patch))

\* the x-range branch: the loop over the parts of the range
xRange(version, range) ==
  LET parts == split(range, ".")
      vParts == split(version, ".")
  IN  IF \E i \in 1..Len(parts) :
            /\ parts[i] # << "x" >>
            /\ (i > Len(vParts) \/ parts[i] # vParts[i])
        THEN NO
        ELSE YES

satisfies(version, range) ==
  IF IsExactVersion(range)
    THEN (IF version = range THEN YES ELSE NO)
  ELSE IF Head(range) = "^"
    THEN LET base == split(Tail(range), ".")
             v == split(version, ".")
         IN  IF caret(Number(base[1]), Number(base[2]), Number(base[3]),
                      Number(v[1]), Number(v[2]), Number(v[3]))
               THEN YES ELSE NO
  ELSE IF Head(range) = "~"
    THEN LET base == split(Tail(range), ".")
             v == split(version, ".")
         IN  IF /\ Number(v[1]) = Number(base[1])
                /\ Number(v[2]) = Number(base[2])
                /\ Number(v[3]) >= Number(base[3])
               THEN YES ELSE NO
  ELSE IF range = << "*" >>
    THEN YES
  ELSE IF \E i \in 1..Len(range) : range[i] = "x"
    THEN xRange(version, range)
  ELSE UNKNOWN

\* Largest major, minor or patch number of a generated version.
MaxVersionPart == 4

VersionParts == 0..MaxVersionPart

\* the decimal digits of n
RECURSIVE String(_)
String(n) ==
  IF n < 10 THEN << DecimalDigits[n + 1] >>
  ELSE String(n \div 10) \o << DecimalDigits[(n % 10) + 1] >>

\* the version string 'major.minor.patch'
Version(major, minor, patch) ==
  String(major) \o << "." >> \o String(minor) \o << "." >> \o String(patch)

Versions == {Version(a, b, c) : a \in VersionParts, b \in VersionParts,
                                c \in VersionParts}

CaretRanges == {<< "^" >> \o v : v \in Versions}

XRanges ==
  {String(a) \o << ".", "x", ".", "x" >> : a \in VersionParts}
    \cup {String(a) \o << "." >> \o String(b) \o << ".", "x" >> :
            a \in VersionParts, b \in VersionParts}

OtherRanges ==
  {<< "*" >>, << ">", "1", ".", "0", ".", "0" >>}
    \cup {Version(a, b, c) : a \in 0..1, b \in 0..1, c \in 0..1}
    \cup {<< "~" >> \o Version(a, b, c) : a \in 0..1, b \in 0..1, c \in 0..1}

SatisfiesInputs ==
  {<< version, range >> :
     version \in Versions, range \in CaretRanges \cup XRanges \cup OtherRanges}

----------------------------------------------------------------------------
(* circular-dependencies: runner.js, a.js and b.js, and the CommonJS loader
   that runs them, as the comments of a.js and b.js describe it *)

Modules == {"runner", "a", "b"}

\* statements of a module body or of an exported function
consoleLog(text) == [op |-> "log", text |-> text, prop |-> ""]
logTypeof(text, prop) == [op |-> "logTypeof", text |-> text, prop |-> prop]
logValue(text, prop) == [op |-> "logValue", text |-> text, prop |-> prop]
logJson(text) == [op |-> "logJson", text |-> text, prop |-> ""]
require(module) == [op |-> "require", text |-> module, prop |-> ""]
setExports(object) == [op |-> "setExports", text |-> "", prop |-> object]
callFunction(prop) == [op |-> "call", text |-> "", prop |-> prop]

Property(name, type) == [name |-> name, type |-> type]

RunnerBody ==
  << consoleLog("=== EXECUTION BEGINS ==="),
     require("a"),
     consoleLog("=== EXECUTION SUMMARY ==="),
     callFunction("greetFromA") >>

\* a variant of a.js that assigns module.exports before it requires b
ModuleAExportsFirst ==
  << consoleLog("Module A: Start of execution"),
     setExports({Property("greetFromA", "function"),
                 Property("valueFromA", "string")}),
     require("b"),
     consoleLog("Module A: After exports definition"),
     logTypeof("Is module B's function available?", "greetFromB"),
     logValue("Accessing module B's value", "valueFromB"),
     callFunction("greetFromB"),
     consoleLog("Module A: End of execution") >>

ModuleA ==
  << consoleLog("Module A: Start of execution"),
     require("b"),
     setExports({Property("greetFromA", "function"),
                 Property("valueFromA", "string")}),
     consoleLog("Module A: After exports definition"),
     logTypeof("Is module B's function available?", "greetFromB"),
     logValue("Accessing module B's value", "valueFromB"),
     callFunction("greetFromB"),
     consoleLog("Module A: End of execution") >>

ModuleB ==
  << consoleLog("Module B: Start of execution"),
     require("a"),
     consoleLog("Module B: After requiring module A"),
     logJson("Module A contents"),
     logTypeof("Is module A's function available?", "greetFromA"),
     setExports({Property("greetFromB", "function"),
                 Property("valueFromB", "string")}),
     consoleLog("Module B: After exports definition"),
     consoleLog("Module B: End of execution") >>

greetFromA ==
  << consoleLog("Hello from module A!"),
     logValue("Module B's value is", "valueFromB") >>

greetFromB ==
  << consoleLog("Hello from module B!"),
     logTypeof("Module B can access module A's functions", "greetFromA") >>

\* the module whose scope a function closes over
DefinedIn(fn) == IF fn = "greetFromA" THEN "a" ELSE "b"

\* the statements of a stack frame
Code(frame) ==
  CASE frame.fn = "greetFromA" -> greetFromA
    [] frame.fn = "greetFromB" -> greetFromB
    [] frame.fn = "body" /\ frame.module = "runner" -> RunnerBody
    [] frame.fn = "body" /\ frame.module = "a" -> ModuleA
    [] frame.fn = "body" /\ frame.module = "b" -> ModuleB

NotCached == [exports |-> 0, loaded |-> FALSE]

Top == frames[Len(frames)]

Executing == frames # << >> /\ Top.pc <= Len(Code(Top))

Statement == Code(Top)[Top.pc]

\* the stack with the top frame advanced past its current statement
Advanced(stack) ==
  [stack EXCEPT ![Len(stack)].pc = @ + 1]

HasFunction(object, prop) == Property(prop, "function") \in heap[object]

NoCall == [fn |-> "none", args |-> << >>, result |-> << >>, done |-> FALSE]

\* no library program is running
LibraryIdle ==
  /\ call = NoCall
  /\ cache = [m \in Modules |-> NotCached]
  /\ heap = << >>
  /\ locals = [m \in Modules |-> 0]
  /\ frames = << >>
  /\ console = << >>

----------------------------------------------------------------------------
(* exporting-patterns/logger.js: the singleton and the factory function *)

toUpperCase(str) ==
  [i \in 1..Len(str) |->
     IF str[i] \in Range(LowerCaseLetters)
       THEN UpperCaseLetters[IndexOf(LowerCaseLetters, str[i])]
       ELSE str[i]]

\* `[${level.toUpperCase()}] [${new Date().toISOString()}] ${message}`
formatMessage(level, message) ==
  [level |-> toUpperCase(level), date |-> date, message |-> message]

\* getHistory() of the instance a reference points to: every instance
\* closes over the one logHistory of the module
getHistory(reference) == [i \in 1..Len(logHistory) |-> logHistory[i]]

\* Most calls of getInstance() in one run.
MaxReferences == 3

\* Most entries of the singleton's history in one run.
MaxHistory == 2

\* Latest reading of the clock by the singleton's log.
MaxDate == 1

SingletonLevels == {<< "i", "n", "f", "o" >>, << "w", "a", "r", "n" >>}

SingletonMessages == {"First singleton usage", "Second singleton usage"}

levels == [error |-> 0, warn |-> 1, info |-> 2, debug |-> 3]

DefaultName == "DefaultLogger"

DefaultLevel == "info"

\* a variant that compares the levels the other way round
shouldLogInverted(messageLevel, level) == levels[messageLevel] >= levels[level]

shouldLog(messageLevel, level) == levels[messageLevel] <= levels[level]

\* options.name || 'DefaultLogger' and options.level || 'info'
Closure(options) ==
  [name |-> IF options.name = "" THEN DefaultName ELSE options.name,
   level |-> IF options.level = "" THEN DefaultLevel ELSE options.level,
   logCount |-> 0]

getLogCount(logger) == loggers[logger].logCount

\* the options of the loggers a run creates; "" is a property left out
LoggerOptions ==
  {[name |-> "ProductionLogger", level |-> "error"],
   [name |-> "DevelopmentLogger", level |-> "debug"],
   [name |-> "WarnLogger", level |-> "warn"],
   [name |-> "InfoLogger", level |-> "info"],
   [name |-> "", level |-> ""]}

\* Most loggers createLogger makes in one run.
MaxLoggers == 2

\* Most calls of the logging methods of the factory loggers in one run.
MaxCalls == 3

----------------------------------------------------------------------------
(* async-patterns.js: DataProcessor, AsyncTask and TaskManager as event
   emitters.  A method is an operator from the state of the emitters before
   the call to their state after it. *)

\* an entry of emitted: an event an emitter emitted, or a method called
Emitted(emitter, event, args) ==
  [emitter |-> emitter, event |-> event, args |-> args]

\* the state the methods work on
Emitters ==
  [manager |-> manager, tasks |-> tasks, processor |-> processor,
   timers |-> timers, emitted |-> emitted, date |-> date]

\* emitter.emit(event, ...args), as far as the listeners only print
Emit(E, emitter, event, args) ==
  [E EXCEPT !.emitted = Append(@, Emitted(emitter, event, args))]

\* setTimeout(fn, delay): the timer fires after those due no later than it
SetTimeout(E, fn, arg, delay) ==
  LET deadline == E.date + delay
      before == SelectSeq(E.timers, LAMBDA t : t.deadline <= deadline)
      after == SelectSeq(E.timers, LAMBDA t : t.deadline > deadline)
  IN  [E EXCEPT !.timers =
         before \o << [fn |-> fn, arg |-> arg, deadline |-> deadline] >>
                \o after]

StringItem(chars) == [type |-> "string", value |-> chars]

NumberItem(n) == [type |-> "number", value |-> n]

\* typeof item === 'string' ? item.toUpperCase() : item
_processItem(item) ==
  IF item.type = "string" THEN StringItem(toUpperCase(item.value)) ELSE item

\* Math.round(x / y * 100)
RoundedPercent(x, y) == (200 * x + y) \div (2 * y)

\* a variant that completes one item early
_processNextChunkStopsEarly(E, index) ==
  IF index + 1 >= Len(E.processor.data)
    THEN Emit(E, "processor", "complete", << E.processor.processed >>)
    ELSE SetTimeout(E, "chunk", index, 200)

_processNextChunk(E, index) ==
  IF index >= Len(E.processor.data)
    THEN Emit(E, "processor", "complete", << E.processor.processed >>)
    ELSE SetTimeout(E, "chunk", index, 200)

\* processData(): emit 'start', then _processNextChunk(0)
ProcessData(E) ==
  _processNextChunk(
    Emit(E, "processor", "start", << Len(E.processor.data) >>), 0)

\* the setTimeout callback of _processNextChunk(index)
ChunkCallback(E, index) ==
  LET result == _processItem(E.processor.data[index + 1])
      E1 == Emit(E, "processor", "data", << index, result >>)
      E2 == [E1 EXCEPT !.processor.processed = @ + 1]
      progress == RoundedPercent(E2.processor.processed,
                                 Len(E2.processor.data))
      E3 == Emit(E2, "processor", "progress", << progress >>)
  IN  _processNextChunk(E3, index + 1)

\* AsyncTask.execute() of tasks[index]
Execute(E, index) ==
  SetTimeout(
    Emit(Emit(E, "task", "execute", << index >>), "task", "start", << index >>),
    "task", index, 1000)

Listener(event, index) == [event |-> event, index |-> index]

\* task.once('success', ...) and task.once('error', ...)
_setupTaskListeners(E, index) ==
  [E EXCEPT !.tasks[index + 1].listeners =
     @ \cup {Listener("success", index), Listener("error", index)}]

\* the getter runningSequentially: the manager's _runningSequentially
runningSequentially == mode = "sequential"

_runNextTask(E) ==
  IF E.manager.currentIndex >= Len(E.tasks)
    THEN Emit(E, "manager", "complete",
              << E.manager.results, E.manager.errors >>)
    ELSE Execute(_setupTaskListeners(E, E.manager.currentIndex),
                 E.manager.currentIndex)

\* results.filter(r => r !== undefined).length of a sparse array
Defined(array) == Cardinality(DOMAIN array)

_checkAllComplete(E) ==
  IF Defined(E.manager.results) + Defined(E.manager.errors) = Len(E.tasks)
    THEN Emit(E, "manager", "complete",
              << E.manager.results, E.manager.errors >>)
    ELSE E

\* array[index] = value
Assign(array, index, value) == (index :> value) @@ array

\* the once('success') listener of _setupTaskListeners(task, index)
OnSuccess(E, index) ==
  LET E1 == [E EXCEPT !.manager.results = Assign(@, index, "success")]
      E2 == Emit(E1, "manager", "taskCompleted", << index >>)
      E3 == IF runningSequentially
              THEN _runNextTask([E2 EXCEPT !.manager.currentIndex = @ + 1])
              ELSE E2
  IN  _checkAllComplete(E3)

\* a variant of the error listener that does not move to the next task
OnErrorStops(E, index) ==
  LET E1 == [E EXCEPT !.manager.errors = Assign(@, index, "error")]
      E2 == Emit(E1, "manager", "taskError", << index >>)
  IN  _checkAllComplete(E2)

\* the once('error') listener of _setupTaskListeners(task, index)
OnError(E, index) ==
  LET E1 == [E EXCEPT !.manager.errors = Assign(@, index, "error")]
      E2 == Emit(E1, "manager", "taskError", << index >>)
      E3 == IF runningSequentially
              THEN _runNextTask([E2 EXCEPT !.manager.currentIndex = @ + 1])
              ELSE E2
  IN  _checkAllComplete(E3)

\* task.emit(event, ...): the once listeners of the event run and are removed;
\* an 'error' nobody listens to is thrown
EmitOnTask(E, task, event) ==
  LET mine == {l \in E.tasks[task + 1].listeners : l.event = event}
      E1 == Emit(E, "task", event, << task >>)
      E2 == [E1 EXCEPT !.tasks[task + 1].listeners = @ \ mine]
  IN  IF mine = {}
        THEN (IF event = "error" THEN Emit(E1, "task", "uncaught", << task >>)
                                 ELSE E1)
        ELSE LET l == CHOOSE l \in mine : TRUE
             IN  IF event = "success" THEN OnSuccess(E2, l.index)
                                      ELSE OnError(E2, l.index)

\* the setTimeout callback of AsyncTask.execute()
TaskCallback(E, task) ==
  LET E1 == EmitOnTask(E, task, IF E.tasks[task + 1].shouldSucceed
                                  THEN "success" ELSE "error")
  IN  IF E1.emitted[Len(E1.emitted)].event = "uncaught"
        THEN E1
        ELSE Emit(E1, "task", "end", << task >>)

\* runSequential(): emit 'start', then _runNextTask()
RunSequential(E) ==
  _runNextTask(Emit(E, "manager", "start", << Len(E.tasks) >>))

\* the forEach of runParallel, from tasks[index] on
RECURSIVE ForEachTask(_, _)
ForEachTask(E, index) ==
  IF index >= Len(E.tasks) THEN E
  ELSE ForEachTask(Execute(_setupTaskListeners(E, index), index), index + 1)

\* runParallel(): emit 'start', then set up and execute every task
RunParallel(E) ==
  ForEachTask(Emit(E, "manager", "start", << Len(E.tasks) >>), 0)

AsyncTask_(name, succeeds) ==
  [name |-> name, shouldSucceed |-> succeeds, listeners |-> {}]

sampleData ==
  << StringItem(<< "a", "p", "p", "l", "e" >>),
     StringItem(<< "b", "a", "n", "a", "n", "a" >>),
     StringItem(<< "c", "h", "e", "r", "r", "y" >>),
     StringItem(<< "d", "a", "t", "e" >>),
     StringItem(<< "e", "l", "d", "e", "r", "b", "e", "r", "r", "y" >>) >>

\* task1 .. task4 as the script adds them to sequentialManager
sequentialTasks ==
  << AsyncTask_("Read file", TRUE),
     AsyncTask_("Process data", TRUE),
     AsyncTask_("Save results", FALSE),
     AsyncTask_("Send notification", TRUE) >>

\* Longest generated data array.
MaxData == 3

\* Longest generated task list.
MaxTasks == 3

DataLists ==
  {sampleData}
    \cup UNION {[1..n -> {StringItem(<< "a", "B" >>), NumberItem(7)}] :
                  n \in 0..MaxData}

TaskLists ==
  {sequentialTasks}
    \cup UNION {[1..n -> {AsyncTask_("task", TRUE), AsyncTask_("task", FALSE)}] :
                  n \in 0..MaxTasks}

NewTaskManager == [currentIndex |-> 0, results |-> << >>, errors |-> << >>]

NewDataProcessor(data) == [data |-> data, processed |-> 0]

\* no object program is running
AppIdle ==
  /\ program = "none"
  /\ instance = 0
  /\ objects = 0
  /\ logHistory = << >>
  /\ references = << >>
  /\ date = 0
  /\ loggers = << >>
  /\ output = << >>
  /\ mode = "none"
  /\ manager = NewTaskManager
  /\ tasks = << >>
  /\ processor = NewDataProcessor(<< >>)
  /\ timers = << >>
  /\ emitted = << >>

----------------------------------------------------------------------------
(* Initial state: the main script is about to execute its first statement *)

Init ==
  /\ script \in Scripts \cup Scenarios
  /\ randomTime \in (IF script = "basics" THEN [1..5 -> RandomTimes]
                                          ELSE {[i \in 1..5 |-> 10]})
  /\ fileExists \in (IF script = "async" THEN BOOLEAN
                       ELSE IF script = "basics" THEN {TRUE} ELSE {FALSE})
  /\ state = "Idle"
  /\ phase = 0
  /\ pass = 0
  /\ remaining = 0
  /\ queue = EmptyQueues
  /\ tickQ = << >>
  /\ promiseQ = << >>
  /\ timerWheel = << >>
  /\ ioPending = {}
  /\ watchers = {}
  /\ failed = {}
  /\ now = 0
  /\ info = << [kind |-> "main", fn |-> "main", arg |-> 0, parent |-> None,
                ms |-> 0, deadline |-> 0, seq |-> 0] >>
  /\ cancelled = {}
  /\ running = MainHandle
  /\ pc = 1
  /\ blockStart = -1
  /\ lastWorkPass = 0
  /\ lastCheck = 0
  /\ timerSeq = 0
  /\ trace = << [ev |-> "start", h |-> MainHandle, msg |-> "", n |-> 0,
                 pass |-> 0, t |-> 0, d |-> 0, q |-> 0] >>
  /\ LibraryIdle
  /\ AppIdle

----------------------------------------------------------------------------
(* Operations issued by the running callback *)

\* setTimeout / setInterval: submitDelayed
submitDelayed ==
  /\ InBody
  /\ CurOp.op \in {"setTimeout", "setInterval"}
  /\ LET d == now + Max(CurOp.ms, 0)
         k == IF CurOp.op = "setTimeout" THEN "timeout" ELSE "interval"
     IN  /\ info' = Append(info, Callback(k, CurOp, d))
         /\ timerWheel' = insert(timerWheel, NewHandle, d)
  /\ timerSeq' = timerSeq + 1
  /\ pc' = pc + 1
  /\ UNCHANGED <<libVars, appVars, script, randomTime, state, phase, pass, remaining, queue,
                 tickQ, promiseQ, ioPending, watchers, failed, fileExists, now,
                 cancelled, running, blockStart, lastWorkPass, lastCheck, trace>>

\* a variant that pushes the new callback at the head of the Check queue
submitImmediateAtHead ==
  /\ InBody
  /\ CurOp.op = "setImmediate"
  /\ info' = Append(info, Callback("immediate", CurOp, now))
  /\ queue' = [queue EXCEPT !["Check"] = << NewHandle >> \o @]
  /\ pc' = pc + 1
  /\ UNCHANGED <<libVars, appVars, script, randomTime, state, phase, pass, remaining, tickQ,
                 promiseQ, timerWheel, ioPending, watchers, failed, fileExists,
                 now, cancelled, running, blockStart, lastWorkPass, lastCheck,
                 timerSeq, trace>>

\* setImmediate: submitImmediate, to the Check phase
submitImmediate ==
  /\ InBody
  /\ CurOp.op = "setImmediate"
  /\ info' = Append(info, Callback("immediate", CurOp, now))
  /\ queue' = [queue EXCEPT !["Check"] = Append(@, NewHandle)]
  /\ pc' = pc + 1
  /\ UNCHANGED <<libVars, appVars, script, randomTime, state, phase, pass, remaining, tickQ,
                 promiseQ, timerWheel, ioPending, watchers, failed, fileExists,
                 now, cancelled, running, blockStart, lastWorkPass, lastCheck,
                 timerSeq, trace>>

\* process.nextTick / Promise.resolve().then: submitMicrotask
submitMicrotask ==
  /\ InBody
  /\ CurOp.op \in {"nextTick", "promiseThen"}
  /\ info' = Append(info, Callback(CurOp.op, CurOp, now))
  /\ tickQ' = IF CurOp.op = "nextTick" THEN Append(tickQ, NewHandle) ELSE tickQ
  /\ promiseQ' = IF CurOp.op = "promiseThen" THEN Append(promiseQ, NewHandle)
                                             ELSE promiseQ
  /\ pc' = pc + 1
  /\ UNCHANGED <<libVars, appVars, script, randomTime, state, phase, pass, remaining, queue,
                 timerWheel, ioPending, watchers, failed, fileExists, now,
                 cancelled, running, blockStart, lastWorkPass, lastCheck, timerSeq, trace>>

\* fs.readFile / fs.createReadStream: an I/O operation handed to a collaborator
issueIo ==
  /\ InBody
  /\ CurOp.op \in {"readFile", "createReadStream"}
  /\ info' = Append(info, Callback("io", CurOp, now))
  /\ ioPending' = ioPending \cup {NewHandle}
  /\ pc' = pc + 1
  /\ UNCHANGED <<libVars, appVars, script, randomTime, state, phase, pass, remaining, queue,
                 tickQ, promiseQ, timerWheel, watchers, failed, fileExists, now,
                 cancelled, running, blockStart, lastWorkPass, lastCheck, timerSeq, trace>>

\* stream.destroy(): the 'close' listener goes to the CloseCallbacks phase
streamDestroyOp ==
  /\ InBody
  /\ CurOp.op = "streamDestroy"
  /\ info' = Append(info, Callback("close", CurOp, now))
  /\ queue' = [queue EXCEPT !["CloseCallbacks"] = Append(@, NewHandle)]
  /\ pc' = pc + 1
  /\ UNCHANGED <<libVars, appVars, script, randomTime, state, phase, pass, remaining, tickQ,
                 promiseQ, timerWheel, ioPending, watchers, failed, fileExists,
                 now, cancelled, running, blockStart, lastWorkPass, lastCheck,
                 timerSeq, trace>>

\* fs.watchFile / fs.watch: a watcher keeps the loop alive until closed
watchOp ==
  /\ InBody
  /\ CurOp.op = "watch"
  /\ info' = Append(info, Callback("watcher", CurOp, now))
  /\ watchers' = watchers \cup {NewHandle}
  /\ pc' = pc + 1
  /\ UNCHANGED <<libVars, appVars, script, randomTime, state, phase, pass, remaining, queue,
                 tickQ, promiseQ, timerWheel, ioPending, failed, fileExists, now,
                 cancelled, running, blockStart, lastWorkPass, lastCheck, timerSeq, trace>>

\* cancel(handle): remove a pending callback from whichever structure holds it
cancelOp ==
  /\ InBody
  /\ CurOp.op \in {"clearInterval", "clearTimeout", "unwatch"}
  /\ LET h == HandleOf(CurOp.fn)
         r == cancel(Structures, h)
     IN  /\ timerWheel' = r.s.timerWheel
         /\ queue' = r.s.queue
         /\ ioPending' = r.s.ioPending
         /\ watchers' = r.s.watchers
         /\ cancelled' = r.s.cancelled
         /\ trace' = Append(trace, [Event("cancel", running,
                                          IF r.ret THEN "true" ELSE "false", h)
                                      EXCEPT !.d = info[h].deadline])
  /\ pc' = pc + 1
  /\ UNCHANGED <<libVars, appVars, script, randomTime, state, phase, pass, remaining, tickQ,
                 promiseQ, failed, fileExists, now, info, running, blockStart,
                 lastWorkPass, lastCheck, timerSeq>>

\* emitter.emit(event): the listeners run inline; nothing throws
emitOp ==
  /\ InBody
  /\ CurOp.op = "emit"
  /\ ~(CurOp.fn = "error" /\ CurOp.arg = 0)
  /\ pc' = pc + 1
  /\ UNCHANGED <<libVars, appVars, script, randomTime, state, phase, pass, remaining, queue,
                 tickQ, promiseQ, timerWheel, ioPending, watchers, failed,
                 fileExists, now, info, cancelled, running, blockStart,
                 lastWorkPass, lastCheck, timerSeq, trace>>

\* a variant that isolates the failing callback and lets the loop continue
throwIsolated ==
  /\ InBody
  /\ \/ CurOp.op = "throw"
     \/ CurOp.op = "emit" /\ CurOp.fn = "error" /\ CurOp.arg = 0
  /\ trace' = Append(trace, Event("end", running, "uncaught", 0))
  /\ running' = None
  /\ pc' = 1
  /\ state' = "DrainingMicrotasks"
  /\ UNCHANGED <<libVars, appVars, script, randomTime, phase, pass, remaining, queue, tickQ,
                 promiseQ, timerWheel, ioPending, watchers, failed, fileExists,
                 now, info, cancelled, blockStart, lastWorkPass, lastCheck,
                 timerSeq>>

\* the callback throws (a throw, or an 'error' event nobody listens to) and
\* no uncaught-error handler is registered: the loop halts
throwOp ==
  /\ InBody
  /\ \/ CurOp.op = "throw"
     \/ CurOp.op = "emit" /\ CurOp.fn = "error" /\ CurOp.arg = 0
  /\ trace' = Append(trace, Event("end", running, "uncaught", 0))
  /\ running' = None
  /\ pc' = 1
  /\ state' = "Halted"
  /\ UNCHANGED <<libVars, appVars, script, randomTime, phase, pass, remaining, queue, tickQ,
                 promiseQ, timerWheel, ioPending, watchers, failed, fileExists,
                 now, info, cancelled, blockStart, lastWorkPass, lastCheck,
                 timerSeq>>

\* fs.writeFileSync / fs.appendFileSync / fs.unlinkSync
fileOp ==
  /\ InBody
  /\ CurOp.op \in {"writeFile", "modifyFile", "unlink"}
  /\ fileExists' = (CurOp.op # "unlink")
  /\ ioPending' = IF CurOp.op = "modifyFile" THEN ioPending \cup watchers
                                             ELSE ioPending
  /\ info' = [h \in DOMAIN info |->
                IF CurOp.op = "modifyFile" /\ h \in watchers
                  THEN [info[h] EXCEPT !.deadline = now]
                  ELSE info[h]]
  /\ pc' = pc + 1
  /\ UNCHANGED <<libVars, appVars, script, randomTime, state, phase, pass, remaining, queue,
                 tickQ, promiseQ, timerWheel, watchers, failed, now,
                 cancelled, running, blockStart, lastWorkPass, lastCheck, timerSeq, trace>>

\* console.log / executionOrder.push
printOp ==
  /\ InBody
  /\ CurOp.op = "print"
  /\ trace' = Append(trace, Event("print", running, CurOp.msg, CurOp.arg))
  /\ pc' = pc + 1
  /\ UNCHANGED <<libVars, appVars, script, randomTime, state, phase, pass, remaining, queue,
                 tickQ, promiseQ, timerWheel, ioPending, watchers, failed,
                 fileExists, now, info, cancelled, running, blockStart,
                 lastWorkPass, lastCheck, timerSeq>>

\* monitorEventLoopLag: lastCheck = Date.now(), and the drift report
lagOp ==
  /\ InBody
  /\ CurOp.op = "lag"
  /\ trace' = IF CurOp.fn = "measure" /\ now - lastCheck - CurOp.ms > 50
                THEN Append(trace, Event("print", running,
                                         "Event Loop Lag Detected",
                                         now - lastCheck - CurOp.ms))
                ELSE trace
  /\ lastCheck' = now
  /\ pc' = pc + 1
  /\ UNCHANGED <<libVars, appVars, script, randomTime, state, phase, pass, remaining, queue,
                 tickQ, promiseQ, timerWheel, ioPending, watchers, failed,
                 fileExists, now, info, cancelled, running, blockStart,
                 lastWorkPass, timerSeq>>

\* const start = Date.now() of a busy-wait loop
beginBusyWait ==
  /\ InBody
  /\ CurOp.op = "busyWait"
  /\ blockStart = -1
  /\ blockStart' = now
  /\ UNCHANGED <<libVars, appVars, script, randomTime, state, phase, pass, remaining, queue,
                 tickQ, promiseQ, timerWheel, ioPending, watchers, failed,
                 fileExists, now, info, cancelled, running, pc, lastWorkPass,
                 lastCheck, timerSeq, trace>>

\* while (Date.now() - start < duration) {} falls through
endBusyWait ==
  /\ InBody
  /\ CurOp.op = "busyWait"
  /\ blockStart >= 0
  /\ ~(now - blockStart < CurOp.ms)
  /\ blockStart' = -1
  /\ pc' = pc + 1
  /\ UNCHANGED <<libVars, appVars, script, randomTime, state, phase, pass, remaining, queue,
                 tickQ, promiseQ, timerWheel, ioPending, watchers, failed,
                 fileExists, now, info, cancelled, running, lastWorkPass,
                 lastCheck, timerSeq, trace>>

----------------------------------------------------------------------------
(* The run loop *)

\* a variant that re-arms every timer, repeating or not
returnRearmsAll ==
  /\ running # None
  /\ pc > Len(Body(running))
  /\ trace' = Append(trace, Event("end", running, "", 0))
  /\ LET rearm == info[running].kind \in {"timeout", "interval"}
                     /\ running \notin cancelled
         d == now + Max(info[running].ms, 0)
     IN  /\ timerWheel' = IF rearm THEN insert(timerWheel, running, d)
                                   ELSE timerWheel
         /\ info' = IF rearm THEN [info EXCEPT ![running].deadline = d,
                                                ![running].seq = timerSeq + 1]
                             ELSE info
         /\ timerSeq' = IF rearm THEN timerSeq + 1 ELSE timerSeq
  /\ running' = None
  /\ pc' = 1
  /\ state' = "DrainingMicrotasks"
  /\ lastWorkPass' = pass
  /\ UNCHANGED <<libVars, appVars, script, randomTime, phase, pass, remaining, queue, tickQ,
                 promiseQ, ioPending, watchers, failed, fileExists, now,
                 cancelled, blockStart, lastCheck>>

\* the running callback returns; a repeating timer is re-armed
return ==
  /\ running # None
  /\ pc > Len(Body(running))
  /\ trace' = Append(trace, Event("end", running, "", 0))
  /\ LET rearm == info[running].kind = "interval" /\ running \notin cancelled
         d == now + Max(info[running].ms, 0)
     IN  /\ timerWheel' = IF rearm THEN insert(timerWheel, running, d)
                                   ELSE timerWheel
         /\ info' = IF rearm THEN [info EXCEPT ![running].deadline = d,
                                                ![running].seq = timerSeq + 1]
                             ELSE info
         /\ timerSeq' = IF rearm THEN timerSeq + 1 ELSE timerSeq
  /\ running' = None
  /\ pc' = 1
  /\ state' = "DrainingMicrotasks"
  /\ lastWorkPass' = pass
  /\ UNCHANGED <<libVars, appVars, script, randomTime, phase, pass, remaining, queue, tickQ,
                 promiseQ, ioPending, watchers, failed, fileExists, now,
                 cancelled, blockStart, lastCheck>>

\* a variant with a single FIFO order: the microtask submitted first runs first
runMicrotaskFifo ==
  /\ running = None
  /\ state = "DrainingMicrotasks"
  /\ ~MicrotasksEmpty
  /\ LET tickFirst == /\ tickQ # << >>
                      /\ (promiseQ = << >> \/ Head(tickQ) < Head(promiseQ))
         h == IF tickFirst THEN Head(tickQ) ELSE Head(promiseQ)
     IN  /\ running' = h
         /\ trace' = Append(trace, Event("start", h, "", 0))
         /\ tickQ' = IF tickFirst THEN Tail(tickQ) ELSE tickQ
         /\ promiseQ' = IF tickFirst THEN promiseQ ELSE Tail(promiseQ)
  /\ pc' = 1
  /\ UNCHANGED <<libVars, appVars, script, randomTime, state, phase, pass, remaining, queue,
                 timerWheel, ioPending, watchers, failed, fileExists, now, info,
                 cancelled, blockStart, lastWorkPass, lastCheck, timerSeq>>

\* MicrotaskDrain: dequeue one microtask, nextTick callbacks first
runMicrotask ==
  /\ running = None
  /\ state = "DrainingMicrotasks"
  /\ ~MicrotasksEmpty
  /\ LET h == IF tickQ # << >> THEN Head(tickQ) ELSE Head(promiseQ)
     IN  /\ running' = h
         /\ trace' = Append(trace, Event("start", h, "", 0))
  /\ tickQ' = IF tickQ # << >> THEN Tail(tickQ) ELSE tickQ
  /\ promiseQ' = IF tickQ # << >> THEN promiseQ ELSE Tail(promiseQ)
  /\ pc' = 1
  /\ UNCHANGED <<libVars, appVars, script, randomTime, state, phase, pass, remaining, queue,
                 timerWheel, ioPending, watchers, failed, fileExists, now, info,
                 cancelled, blockStart, lastWorkPass, lastCheck, timerSeq>>

\* ExecutingPhase(p): dequeue and invoke the head of the phase's queue
runPhaseCallback ==
  /\ LoopHasControl
  /\ Runnable
  /\ LET h == Head(queue[PhaseName])
     IN  /\ running' = h
         /\ trace' = Append(trace, Event("start", h, "", 0))
  /\ queue' = [queue EXCEPT ![PhaseName] = Tail(@)]
  /\ remaining' = Max(remaining - 1, 0)
  /\ state' = "ExecutingPhase"
  /\ pc' = 1
  /\ UNCHANGED <<libVars, appVars, script, randomTime, phase, pass, tickQ, promiseQ, timerWheel,
                 ioPending, watchers, failed, fileExists, now, info, cancelled,
                 blockStart, lastWorkPass, lastCheck, timerSeq>>

\* the ring advances; entering Timers moves the elapsed TimerWheel entries
advancePhase ==
  /\ LoopHasControl
  /\ ~Runnable
  /\ ~Waiting
  /\ phase = Len(Phases) => Alive
  /\ LET np == NextPhase(phase)
         k == ReadyCount(timerWheel, now)
         q == IF np = 1
                THEN [queue EXCEPT !["Timers"] = @ \o removeReady(timerWheel, now)]
                ELSE queue
     IN  /\ phase' = np
         /\ queue' = q
         /\ timerWheel' = IF np = 1 THEN SubSeq(timerWheel, k + 1, Len(timerWheel))
                                    ELSE timerWheel
         /\ pass' = IF np = 1 THEN pass + 1 ELSE pass
         /\ remaining' = Len(q[Phases[np]])
  /\ state' = "ExecutingPhase"
  /\ UNCHANGED <<libVars, appVars, script, randomTime, tickQ, promiseQ, ioPending, watchers,
                 failed, fileExists, now, info, cancelled, running, pc,
                 blockStart, lastWorkPass, lastCheck, timerSeq, trace>>

\* end of a ring pass with no pending work: run() returns
terminate ==
  /\ LoopHasControl
  /\ phase = Len(Phases)
  /\ ~Runnable
  /\ ~Alive
  /\ state' = "Terminated"
  /\ UNCHANGED <<libVars, appVars, script, randomTime, phase, pass, remaining, queue, tickQ,
                 promiseQ, timerWheel, ioPending, watchers, failed, fileExists,
                 now, info, cancelled, running, pc, blockStart, lastWorkPass,
                 lastCheck, timerSeq, trace>>

----------------------------------------------------------------------------
(* The environment: the clock and the I/O collaborators *)

\* time passes while a busy-wait spins or while the loop is suspended,
\* unless an I/O completion is due
tick ==
  /\ \/ InBody /\ CurOp.op = "busyWait" /\ blockStart >= 0
          /\ now - blockStart < CurOp.ms
     \/ Waiting /\ timerWheel # << >>
  /\ \A h \in ioPending : now - info[h].deadline < MaxIoTicks * TickMs
  /\ now' = now + TickMs
  /\ UNCHANGED <<libVars, appVars, script, randomTime, state, phase, pass, remaining, queue,
                 tickQ, promiseQ, timerWheel, ioPending, watchers, failed,
                 fileExists, info, cancelled, running, pc, blockStart,
                 lastWorkPass, lastCheck, timerSeq, trace>>

\* a collaborator reports a completion: submitIoCompletion, to the Poll phase
ioComplete ==
  \E h \in ioPending :
    \E err \in (IF fileExists \/ info[h].kind = "watcher" THEN {FALSE}
                                                          ELSE BOOLEAN) :
      /\ ioPending' = ioPending \ {h}
      /\ failed' = IF err THEN failed \cup {h} ELSE failed
      /\ queue' = [queue EXCEPT !["Poll"] = Append(@, h)]
      /\ UNCHANGED <<libVars, appVars, script, randomTime, state, phase, pass, remaining, tickQ,
                     promiseQ, timerWheel, watchers, fileExists, now, info,
                     cancelled, running, pc, blockStart, lastWorkPass,
                     lastCheck, timerSeq, trace>>

Next ==
  \/ submitDelayed
  \/ submitImmediate
  \/ submitMicrotask
  \/ issueIo
  \/ streamDestroyOp
  \/ watchOp
  \/ cancelOp
  \/ emitOp
  \/ throwOp
  \/ fileOp
  \/ printOp
  \/ lagOp
  \/ beginBusyWait
  \/ endBusyWait
  \/ return
  \/ runMicrotask
  \/ runPhaseCallback
  \/ advancePhase
  \/ terminate
  \/ tick
  \/ ioComplete

Spec == Init /\ [][Next]_vars

----------------------------------------------------------------------------
(* The library programs: one call of a string or version function, or
   node runner.js *)

\* no event-loop script is running
LoopIdle ==
  /\ script = "none"
  /\ randomTime = [i \in 1..5 |-> 10]
  /\ fileExists = FALSE
  /\ state = "Idle"
  /\ phase = 0
  /\ pass = 0
  /\ remaining = 0
  /\ queue = EmptyQueues
  /\ tickQ = << >>
  /\ promiseQ = << >>
  /\ timerWheel = << >>
  /\ ioPending = {}
  /\ watchers = {}
  /\ failed = {}
  /\ now = 0
  /\ info = << >>
  /\ cancelled = {}
  /\ running = None
  /\ pc = 1
  /\ blockStart = -1
  /\ lastWorkPass = 0
  /\ lastCheck = 0
  /\ timerSeq = 0
  /\ trace = << >>

Call(fn, args) == [fn |-> fn, args |-> args, result |-> << >>, done |-> FALSE]

LibInit ==
  /\ LoopIdle
  /\ AppIdle
  /\ \/ /\ call \in {Call("truncate", a) : a \in TruncateInputs}
                   \cup {Call("slugify", << str >>) : str \in SlugifyInputs}
                   \cup {Call("satisfies", a) : a \in SatisfiesInputs}
        /\ cache = [m \in Modules |-> NotCached]
        /\ heap = << >>
        /\ frames = << >>
     \/ \* node runner.js: the entry module starts with an empty exports object
        /\ call = NoCall
        /\ cache = [m \in Modules |->
                      IF m = "runner" THEN [exports |-> 1, loaded |-> FALSE]
                                      ELSE NotCached]
        /\ heap = << {} >>
        /\ frames = << [module |-> "runner", fn |-> "body", pc |-> 1] >>
  /\ locals = [m \in Modules |-> 0]
  /\ console = << >>

callTruncate ==
  /\ call.fn = "truncate"
  /\ ~call.done
  /\ call' = [call EXCEPT
                !.result = truncate(call.args[1],
                                    IF Len(call.args) > 1 THEN call.args[2]
                                                          ELSE DefaultMaxLength),
                !.done = TRUE]
  /\ UNCHANGED <<loopVars, appVars, cache, heap, locals, frames, console>>

callSlugify ==
  /\ call.fn = "slugify"
  /\ ~call.done
  /\ call' = [call EXCEPT !.result = slugify(call.args[1]), !.done = TRUE]
  /\ UNCHANGED <<loopVars, appVars, cache, heap, locals, frames, console>>

callSatisfies ==
  /\ call.fn = "satisfies"
  /\ ~call.done
  /\ call' = [call EXCEPT !.result = satisfies(call.args[1], call.args[2]),
                          !.done = TRUE]
  /\ UNCHANGED <<loopVars, appVars, cache, heap, locals, frames, console>>

\* console.log of a text, of a typeof test, of a property or of JSON.stringify,
\* evaluated on the object bound to the module's moduleA / moduleB
logOp ==
  /\ Executing
  /\ Statement.op \in {"log", "logTypeof", "logValue", "logJson"}
  /\ LET object == locals[Top.module]
         value ==
           CASE Statement.op = "log" -> {}
             [] Statement.op = "logTypeof" ->
                  {HasFunction(object, Statement.prop)}
             [] Statement.op = "logValue" ->
                  {p.name : p \in {q \in heap[object] : q.name = Statement.prop}}
             [] Statement.op = "logJson" ->
                  {p.name : p \in {q \in heap[object] : q.type # "function"}}
     IN  console' = Append(console, [module |-> Top.module,
                                     text |-> Statement.text, value |-> value])
  /\ frames' = Advanced(frames)
  /\ UNCHANGED <<loopVars, appVars, call, cache, heap, locals>>

\* require of a module already in the cache, loaded or still loading: its
\* current module.exports is returned at once
requireCached ==
  /\ Executing
  /\ Statement.op = "require"
  /\ cache[Statement.text] # NotCached
  /\ locals' = [locals EXCEPT ![Top.module] = cache[Statement.text].exports]
  /\ frames' = Advanced(frames)
  /\ UNCHANGED <<loopVars, appVars, call, cache, heap, console>>

\* require of a module not in the cache: it is cached with an empty exports
\* object and its body starts; the requiring module waits at the require
requireLoad ==
  /\ Executing
  /\ Statement.op = "require"
  /\ cache[Statement.text] = NotCached
  /\ heap' = Append(heap, {})
  /\ cache' = [cache EXCEPT ![Statement.text] =
                  [exports |-> Len(heap) + 1, loaded |-> FALSE]]
  /\ frames' = Append(frames, [module |-> Statement.text, fn |-> "body",
                               pc |-> 1])
  /\ UNCHANGED <<loopVars, appVars, call, locals, console>>

\* module.exports = { ... }: a new object replaces the module's exports
setExportsOp ==
  /\ Executing
  /\ Statement.op = "setExports"
  /\ heap' = Append(heap, Statement.prop)
  /\ cache' = [cache EXCEPT ![Top.module].exports = Len(heap) + 1]
  /\ frames' = Advanced(frames)
  /\ UNCHANGED <<loopVars, appVars, call, locals, console>>

\* moduleX.f(): the function runs in the scope of the module that defines it
callOp ==
  /\ Executing
  /\ Statement.op = "call"
  /\ HasFunction(locals[Top.module], Statement.prop)
  /\ frames' = Append(frames, [module |-> DefinedIn(Statement.prop),
                               fn |-> Statement.prop, pc |-> 1])
  /\ UNCHANGED <<loopVars, appVars, call, cache, heap, locals, console>>

\* a module body ends: the module is loaded and the waiting require returns
\* its module.exports
moduleReturn ==
  /\ frames # << >>
  /\ Top.fn = "body"
  /\ Top.pc > Len(Code(Top))
  /\ cache' = [cache EXCEPT ![Top.module].loaded = TRUE]
  /\ LET rest == SubSeq(frames, 1, Len(frames) - 1)
     IN  IF rest = << >>
           THEN frames' = rest /\ locals' = locals
           ELSE /\ frames' = Advanced(rest)
                /\ locals' = [locals EXCEPT ![rest[Len(rest)].module] =
                                 cache[Top.module].exports]
  /\ UNCHANGED <<loopVars, appVars, call, heap, console>>

\* an exported function returns to its caller
functionReturn ==
  /\ frames # << >>
  /\ Top.fn # "body"
  /\ Top.pc > Len(Code(Top))
  /\ frames' = Advanced(SubSeq(frames, 1, Len(frames) - 1))
  /\ UNCHANGED <<loopVars, appVars, call, cache, heap, locals, console>>

LibNext ==
  \/ callTruncate
  \/ callSlugify
  \/ callSatisfies
  \/ logOp
  \/ requireCached
  \/ requireLoad
  \/ setExportsOp
  \/ callOp
  \/ moduleReturn
  \/ functionReturn

LibSpec == LibInit /\ [][LibNext]_vars

----------------------------------------------------------------------------
(* The object programs: calls on the singleton logger, on factory loggers,
   and a run of a DataProcessor and a TaskManager *)

emitterVars == <<mode, manager, tasks, processor, timers, emitted>>

singletonVars == <<instance, objects, logHistory, references>>

factoryVars == <<loggers, output>>

AppInit ==
  /\ LoopIdle
  /\ LibraryIdle
  /\ instance = 0
  /\ objects = 0
  /\ logHistory = << >>
  /\ references = << >>
  /\ date = 0
  /\ loggers = << >>
  /\ output = << >>
  /\ manager = NewTaskManager
  /\ timers = << >>
  /\ emitted = << >>
  /\ \/ /\ program \in {"singleton", "factory"}
        /\ mode = "none"
        /\ tasks = << >>
        /\ processor = NewDataProcessor(<< >>)
     \/ \* new DataProcessor(data), and a new TaskManager with its tasks added
        /\ program = "emitters"
        /\ mode \in {"sequential", "parallel"}
        /\ tasks \in TaskLists
        /\ processor \in {NewDataProcessor(data) : data \in DataLists}

\* a variant of getInstance that initializes an instance on every call
getInstanceAlwaysInitializes ==
  /\ program = "singleton"
  /\ Len(references) < MaxReferences
  /\ instance' = objects + 1
  /\ objects' = objects + 1
  /\ references' = Append(references, instance')
  /\ UNCHANGED <<loopVars, libVars, program, logHistory, date, factoryVars,
                 emitterVars>>

getInstance ==
  /\ program = "singleton"
  /\ Len(references) < MaxReferences
  /\ IF instance = 0
       THEN instance' = objects + 1 /\ objects' = objects + 1
       ELSE UNCHANGED <<instance, objects>>
  /\ references' = Append(references, instance')
  /\ UNCHANGED <<loopVars, libVars, program, logHistory, date, factoryVars,
                 emitterVars>>

\* reference.log(level, message); the clock may have advanced since the
\* previous call
log ==
  /\ program = "singleton"
  /\ Len(logHistory) < MaxHistory
  /\ \E i \in 1..Len(references), level \in SingletonLevels,
        message \in SingletonMessages, d \in date..MaxDate :
       /\ date' = d
       /\ logHistory' = Append(logHistory, formatMessage(level, message)')
  /\ UNCHANGED <<loopVars, libVars, program, instance, objects, references,
                 factoryVars, emitterVars>>

\* reference.clearHistory()
clearHistory ==
  /\ program = "singleton"
  /\ references # << >>
  /\ logHistory' = << >>
  /\ UNCHANGED <<loopVars, libVars, program, instance, objects, references,
                 date, factoryVars, emitterVars>>

createLogger ==
  /\ program = "factory"
  /\ Len(loggers) < MaxLoggers
  /\ \E options \in LoggerOptions :
       loggers' = Append(loggers, Closure(options))
  /\ UNCHANGED <<loopVars, libVars, program, singletonVars, date, output,
                 emitterVars>>

\* the body shared by the four logging methods of a logger; the call is
\* recorded whether or not it writes
Write(logger, messageLevel, tag, message) ==
  /\ emitted' = Append(emitted, Emitted("logger", messageLevel, << logger >>))
  /\ IF shouldLog(messageLevel, loggers[logger].level)
       THEN /\ loggers' = [loggers EXCEPT ![logger].logCount = @ + 1]
            /\ output' = Append(output, [logger |-> logger,
                                          name |-> loggers[logger].name,
                                          tag |-> tag, message |-> message])
       ELSE UNCHANGED <<loggers, output>>

debug ==
  /\ program = "factory"
  /\ Len(emitted) < MaxCalls
  /\ \E logger \in 1..Len(loggers) :
       Write(logger, "debug", "DEBUG", "Variable value: 42")
  /\ UNCHANGED <<loopVars, libVars, program, singletonVars, date, mode,
                 manager, tasks, processor, timers>>

info_ ==
  /\ program = "factory"
  /\ Len(emitted) < MaxCalls
  /\ \E logger \in 1..Len(loggers) :
       Write(logger, "info", "INFO", "Loading configuration")
  /\ UNCHANGED <<loopVars, libVars, program, singletonVars, date, mode,
                 manager, tasks, processor, timers>>

warn ==
  /\ program = "factory"
  /\ Len(emitted) < MaxCalls
  /\ \E logger \in 1..Len(loggers) :
       Write(logger, "warn", "WARN", "Deprecated function called")
  /\ UNCHANGED <<loopVars, libVars, program, singletonVars, date, mode,
                 manager, tasks, processor, timers>>

error ==
  /\ program = "factory"
  /\ Len(emitted) < MaxCalls
  /\ \E logger \in 1..Len(loggers) :
       Write(logger, "error", "ERROR", "Failed to connect to API")
  /\ UNCHANGED <<loopVars, libVars, program, singletonVars, date, mode,
                 manager, tasks, processor, timers>>

Has(emitter, event) ==
  \E i \in 1..Len(emitted) :
    emitted[i].emitter = emitter /\ emitted[i].event = event

\* the emitters after a method or callback has run
Becomes(E) ==
  /\ manager' = E.manager
  /\ tasks' = E.tasks
  /\ processor' = E.processor
  /\ timers' = E.timers
  /\ emitted' = E.emitted
  /\ date' = E.date

\* processor.processData()
processData ==
  /\ program = "emitters"
  /\ ~Has("processor", "start")
  /\ Becomes(ProcessData(Emitters))
  /\ UNCHANGED <<loopVars, libVars, program, singletonVars, factoryVars, mode>>

\* sequentialManager.runSequential(), after processData() in the script
runSequential ==
  /\ program = "emitters"
  /\ mode = "sequential"
  /\ Has("processor", "start")
  /\ ~Has("manager", "start")
  /\ Becomes(RunSequential(Emitters))
  /\ UNCHANGED <<loopVars, libVars, program, singletonVars, factoryVars, mode>>

\* manager.runParallel()
runParallel ==
  /\ program = "emitters"
  /\ mode = "parallel"
  /\ Has("processor", "start")
  /\ ~Has("manager", "start")
  /\ Becomes(RunParallel(Emitters))
  /\ UNCHANGED <<loopVars, libVars, program, singletonVars, factoryVars, mode>>

\* the script has run to its end: the earliest timer fires and its callback
\* runs to completion
timeout ==
  /\ program = "emitters"
  /\ Has("manager", "start")
  /\ timers # << >>
  /\ LET timer == Head(timers)
         E == [Emitters EXCEPT !.timers = Tail(@), !.date = timer.deadline]
     IN  Becomes(IF timer.fn = "chunk" THEN ChunkCallback(E, timer.arg)
                                        ELSE TaskCallback(E, timer.arg))
  /\ UNCHANGED <<loopVars, libVars, program, singletonVars, factoryVars, mode>>

AppNext ==
  \/ getInstance
  \/ log
  \/ clearHistory
  \/ createLogger
  \/ debug
  \/ info_
  \/ warn
  \/ error
  \/ processData
  \/ runSequential
  \/ runParallel
  \/ timeout

AppSpec == AppInit /\ [][AppNext]_vars

----------------------------------------------------------------------------
TypeOK ==
  /\ script \in Scripts \cup Scenarios
  /\ state \in {"Idle", "DrainingMicrotasks", "ExecutingPhase", "Terminated",
                "Halted"}
  /\ phase \in 0..Len(Phases)
  /\ running \in 0..Len(info)

Done == state = "Terminated"

----------------------------------------------------------------------------
(* Reading the trace *)

Kind(h) == info[h].kind

IsMicrotask(h) == Kind(h) \in {"nextTick", "promiseThen"}

IsPhaseCallback(h) == Kind(h) \notin {"main", "nextTick", "promiseThen"}

IsStart(e) == e.ev = "start"

IsPrint(e) == e.ev = "print"

Started(h) == \E k \in DOMAIN trace : IsStart(trace[k]) /\ trace[k].h = h

StartedBefore(a, b) ==
  \E i, j \in DOMAIN trace :
    /\ i < j
    /\ IsStart(trace[i]) /\ trace[i].h = a
    /\ IsStart(trace[j]) /\ trace[j].h = b

Prints == SelectSeq(trace, IsPrint)

Printed(s) == \E k \in DOMAIN trace : IsPrint(trace[k]) /\ trace[k].msg = s

\* every print of b comes after a print of a
PrintedBefore(a, b) ==
  \A j \in DOMAIN trace :
    (IsPrint(trace[j]) /\ trace[j].msg = b)
      => \E i \in 1..(j - 1) : IsPrint(trace[i]) /\ trace[i].msg = a

\* the print that follows a print of a, if any, is b
NextPrintIs(a, b) ==
  \A k \in 1..(Len(Prints) - 1) : Prints[k].msg = a => Prints[k + 1].msg = b

----------------------------------------------------------------------------
(* C1: whenever a phase-queue callback starts or the loop has just advanced
   to a phase, the nextTick and Promise queues are empty; a microtask
   submitted by a callback C starts after C has returned and before any
   further phase-queue callback starts.  In the scripts: the nextTick
   nested in the 0 ms timer (event-loop-phases.js) and in Timer 1
   (event-loop-basics.js) prints directly after its timer's own print. *)
C1_MicrotasksDrainedBetweenCallbacks ==
  /\ (running # None /\ pc = 1 /\ blockStart = -1 /\ IsPhaseCallback(running))
       => MicrotasksEmpty
  /\ (state = "ExecutingPhase" /\ running = None) => MicrotasksEmpty
  /\ \A j \in DOMAIN trace :
       (IsStart(trace[j]) /\ IsMicrotask(trace[j].h))
         => \E i \in 1..(j - 1) :
              /\ trace[i].ev = "end"
              /\ trace[i].h = info[trace[j].h].parent
              /\ \A k \in (i + 1)..(j - 1) :
                   IsStart(trace[k]) => IsMicrotask(trace[k].h)
  /\ script = "phases" => NextPrintIs("Timer (0ms)", "nextTick inside Timer")
  /\ script = "basics"
       => NextPrintIs("Timer 1 executed (100ms)", "nextTick inside Timer 1")

\* the nextTick nested in the 0 ms timer callback has run
C1_Witness ==
  /\ script = "phases"
  /\ Printed("nextTick inside Timer")
  /\ \E h \in 1..Len(info) :
       IsMicrotask(h) /\ IsPhaseCallback(info[h].parent) /\ Started(h)

(* C2: when a callback that ran in the Poll phase submitted both a
   setImmediate callback and a setTimeout(..., 0) callback, in either order,
   the immediate starts before the timer does.  In the scripts: 'Immediate
   inside File read callback' prints before 'Timer inside File read
   callback', and 'setImmediate inside I/O' before 'Timer inside I/O'. *)
C2_CheckBeforeZeroTimerFromPoll ==
  /\ \A i, t \in 1..Len(info) :
       ( /\ Kind(i) = "immediate"
         /\ Kind(t) = "timeout" /\ info[t].ms = 0
         /\ info[i].parent = info[t].parent
         /\ Kind(info[i].parent) \in {"io", "watcher"}
         /\ Started(t) )
         => StartedBefore(i, t)
  /\ PrintedBefore("Immediate inside File read callback",
                   "Timer inside File read callback")
  /\ PrintedBefore("setImmediate inside I/O", "Timer inside I/O")

\* both nested callbacks of a file-read callback have run
C2_Witness ==
  \E i, t \in 1..Len(info) :
    /\ Kind(i) = "immediate"
    /\ Kind(t) = "timeout" /\ info[t].ms = 0
    /\ info[i].parent = info[t].parent
    /\ Kind(info[i].parent) = "io"
    /\ Started(i) /\ Started(t)

TimerStarts ==
  SelectSeq(trace, LAMBDA e : IsStart(e) /\ Kind(e.h) \in {"timeout", "interval"})

(* C3: timer callbacks start in non-decreasing order of deadline, equal
   deadlines in order of insertion, and none before its deadline; this
   includes timers overdue after a busy-wait.  In the scripts: Timer 2
   prints before Timer 3, and the 100 ms timer before the 200 ms timer
   although both are overdue when blockingOperation(500) returns. *)
C3_TimersFireInDeadlineOrder ==
  /\ \A k \in 1..(Len(TimerStarts) - 1) :
       \/ TimerStarts[k].d < TimerStarts[k + 1].d
       \/ /\ TimerStarts[k].d = TimerStarts[k + 1].d
          /\ TimerStarts[k].q < TimerStarts[k + 1].q
  /\ \A k \in 1..Len(TimerStarts) : TimerStarts[k].d <= TimerStarts[k].t
  /\ PrintedBefore("Timer 2 executed (0ms)", "Timer 3 executed (0ms)")
  /\ PrintedBefore("This should execute after 100ms",
                   "This should execute after 200ms")

\* both timers delayed by the first blocking operation have fired, overdue
C3_Witness ==
  /\ Printed("This should execute after 200ms")
  /\ \E k \in 1..Len(TimerStarts) : TimerStarts[k].d < TimerStarts[k].t
  /\ \E k \in 1..(Len(TimerStarts) - 1) :
       TimerStarts[k].d = TimerStarts[k + 1].d

ImmediateStarts ==
  SelectSeq(trace, LAMBDA e : IsStart(e) /\ Kind(e.h) = "immediate")

TestImmediatePrints ==
  SelectSeq(trace, LAMBDA e : IsPrint(e) /\ e.msg = "Test: setImmediate executing")

(* C4: setImmediate callbacks start in the order in which they were
   submitted (handles are numbered in submission order); the three
   setImmediate callbacks of the comparison loop print Test 1, 2, 3. *)
C4_ImmediatesRunFifo ==
  /\ \A k \in 1..(Len(ImmediateStarts) - 1) :
       ImmediateStarts[k].h < ImmediateStarts[k + 1].h
  /\ \A k \in 1..Len(TestImmediatePrints) : TestImmediatePrints[k].n = k

\* the three immediates of the comparison loop have all run
C4_Witness == Len(TestImmediatePrints) = 3

ChunkStarts ==
  SelectSeq(trace, LAMBDA e : IsStart(e) /\ info[e.h].fn = "processChunk")

(* C5: processChunk, which resubmits itself with setImmediate
   ArrayLength / ChunkSize - 1 times, executes ArrayLength / ChunkSize times
   in total once it has finished, each execution submitted by the previous
   one and started in a later ring pass than the previous one. *)
C5_SelfResubmitOncePerPass ==
  script = "avoid" =>
    /\ \A k \in 1..(Len(ChunkStarts) - 1) :
         /\ info[ChunkStarts[k + 1].h].parent = ChunkStarts[k].h
         /\ ChunkStarts[k].pass < ChunkStarts[k + 1].pass
    /\ Len(ChunkStarts) <= ArrayLength \div ChunkSize
    /\ (Printed("Finished processing") \/ Done)
         => Len(ChunkStarts) = ArrayLength \div ChunkSize

\* the array has been processed to the end
C5_Witness ==
  /\ script = "avoid"
  /\ Printed("Finished processing")
  /\ Len(ChunkStarts) > 1

(* C6: a setTimeout(..., 0) callback starts only after the callback that
   submitted it has returned and every microtask that callback submitted
   has started; every callback other than the main script starts after the
   main script has returned.  In avoiding-blocking.js, 'Scheduled
   JSON.stringify for later' prints before 'Stringified'. *)
C6_ZeroDelayNeverSynchronous ==
  /\ \A k \in DOMAIN trace :
       (IsStart(trace[k]) /\ Kind(trace[k].h) = "timeout"
          /\ info[trace[k].h].ms = 0)
         => LET p == info[trace[k].h].parent
            IN  /\ \E i \in 1..(k - 1) : trace[i].ev = "end" /\ trace[i].h = p
                /\ \A m \in 1..Len(info) :
                     (IsMicrotask(m) /\ info[m].parent = p)
                       => StartedBefore(m, trace[k].h)
  /\ \A k \in DOMAIN trace :
       trace[k].h # MainHandle
         => \E i \in 1..(k - 1) : trace[i].ev = "end" /\ trace[i].h = MainHandle
  /\ state = "Idle" => running = MainHandle
  /\ PrintedBefore("Scheduled JSON.stringify for later, continuing execution",
                   "Stringified")

\* the deferred stringify callback has run
C6_Witness ==
  /\ script = "avoid"
  /\ Printed("Stringified")

(* C7: when the main script submitted a microtask (process.nextTick or
   Promise) and a setImmediate callback, the microtask starts before the
   immediate.  In the scripts: the nextTick and Promise prints precede the
   setImmediate print. *)
C7_MicrotaskBeforeImmediate ==
  /\ \A m, i \in 1..Len(info) :
       ( /\ IsMicrotask(m) /\ info[m].parent = MainHandle
         /\ Kind(i) = "immediate" /\ info[i].parent = MainHandle
         /\ Started(i) )
         => StartedBefore(m, i)
  /\ PrintedBefore("from process.nextTick", "from setImmediate (check phase)")
  /\ PrintedBefore("from a resolved Promise (microtask)",
                   "from setImmediate (check phase)")
  /\ PrintedBefore("nextTick", "setImmediate")
  /\ PrintedBefore("Promise", "setImmediate")

\* the immediate submitted by the main script of event-loop-basics.js has run
C7_Witness ==
  /\ script = "basics"
  /\ Printed("from setImmediate (check phase)")

(* C8: callbacks are not interleaved: in the trace every callback start
   directly follows the end of the previous callback, and every print or end
   belongs to the callback that started last; while a busy-wait spins, its
   callback is the one running.  In the scripts: nothing happens between
   the two prints around the request-3 CPU loop, and the overdue 100 ms
   timer runs after 'Blocking operation completed'. *)
C8_RunToCompletion ==
  /\ \A k \in 2..Len(trace) :
       IF IsStart(trace[k])
         THEN trace[k - 1].ev = "end"
         ELSE trace[k - 1].ev # "end" /\ trace[k - 1].h = trace[k].h
  /\ IF running = None
       THEN trace[Len(trace)].ev = "end"
       ELSE trace[Len(trace)].ev # "end" /\ trace[Len(trace)].h = running
  /\ blockStart >= 0 => running # None
  /\ \A k \in 1..(Len(trace) - 1) :
       trace[k].msg = "Request: Running CPU-intensive task"
         => trace[k + 1].msg = "Request: CPU-intensive task completed"
  /\ PrintedBefore("Blocking operation completed",
                   "This should execute after 100ms")

\* the request-3 busy-wait has spun while time passed, and returned
C8_Witness ==
  \E k \in 2..Len(trace) :
    /\ trace[k].msg = "Request: CPU-intensive task completed"
    /\ trace[k].t > trace[k - 1].t

OneShot(h) == Kind(h) \notin {"interval", "watcher"}

OneShotStarts == SelectSeq(trace, LAMBDA e : IsStart(e) /\ OneShot(e.h))

(* C9: no one-shot callback starts twice and none starts after it was
   cancelled; once the loop has terminated, every submitted one-shot
   callback has either started (exactly once) or been cancelled, not both. *)
C9_CallbackConservation ==
  /\ \A i, j \in 1..Len(OneShotStarts) :
       i < j => OneShotStarts[i].h # OneShotStarts[j].h
  /\ \A h \in cancelled : OneShot(h) => ~Started(h)
  /\ Done => \A h \in 1..Len(info) :
               OneShot(h) => (Started(h) <=> h \notin cancelled)

\* event-loop-phases.js has run to termination
C9_Witness ==
  /\ Done
  /\ script = "phases"
  /\ Printed("FINAL EXECUTION ORDER")

(* C10: the loop has terminated only if no timer, queued callback,
   microtask, outstanding I/O or watcher is left; once none is left it
   terminates in the ring pass in which the last callback returned (or the
   next one), and the loop can always take its next step.  async-patterns.js
   has not terminated before its cleanup at 8000 ms, both watchers stay
   registered until then, and nothing is outstanding once the cleanup
   callback has returned. *)
C10_TerminatesWhenNoWork ==
  /\ Done => (~Alive /\ MicrotasksEmpty /\ running = None)
  /\ (~Alive /\ LoopHasControl)
       => (pass <= lastWorkPass + 1 /\ ENABLED (advancePhase \/ terminate))
  /\ script = "async" =>
       /\ Done => (Printed("Cleaned up file watchers and sample file")
                     /\ now >= 8000)
       /\ (state # "Idle" /\ ~Printed("Key takeaways on async patterns with events"))
            => (Cardinality(watchers) = 2 /\ ~Done)
       /\ (Printed("Cleaned up file watchers and sample file") /\ running = None)
            => ~Alive

\* async-patterns.js has exited
C10_Witness ==
  /\ Done
  /\ script = "async"
  /\ pass = lastWorkPass

IsCancel(e) == e.ev = "cancel"

(* C11: a callback whose cancel returned true never starts afterwards, and
   from that moment no timer wheel, phase queue, I/O or watcher set holds it,
   so it no longer counts as outstanding work.  In avoiding-blocking.js: once
   'Event loop monitoring stopped' is printed the lagCheck interval is
   cancelled and held nowhere, and the loop exits at the very time of the
   clearInterval.  In the cancel scenario the victim, cancelled before its
   100 ms deadline, never prints; a callback that cancels itself while it
   executes is not interrupted. *)
C11_CancelledNeverExecutes ==
  /\ \A k \in DOMAIN trace :
       (IsCancel(trace[k]) /\ trace[k].msg = "true")
         => /\ \A j \in (k + 1)..Len(trace) :
                 IsStart(trace[j]) => trace[j].h # trace[k].n
            /\ ~Pending(trace[k].n)
            /\ trace[k].n \in cancelled
  /\ script = "avoid" =>
       /\ Printed("Event loop monitoring stopped")
            => /\ HandleOf("lagCheck") \in cancelled
               /\ ~Pending(HandleOf("lagCheck"))
       /\ Done => \E k \in DOMAIN trace : IsCancel(trace[k]) /\ trace[k].t = now
  /\ script = "cancel" =>
       /\ ~Printed("victim executed")
       /\ Done => Printed("survivor executed")

\* the victim was cancelled before its deadline and the loop has terminated
C11_Witness ==
  /\ script = "cancel"
  /\ Done
  /\ \E k \in DOMAIN trace :
       /\ IsCancel(trace[k]) /\ trace[k].msg = "true"
       /\ trace[k].t < trace[k].d
       /\ info[trace[k].n].fn = "victim"
       /\ ~Started(trace[k].n)

(* C12: in every reachable state and for every handle, cancel applied to a
   pending handle returns true, and cancel applied again to the structures
   the first call left returns false and leaves every structure as it was;
   of the cancel calls a run makes on one handle, only the first can return
   true.  In the cancel scenario the first cancel of the pending victim
   returns true and the second false. *)
C12_CancelIdempotent ==
  /\ \A h \in 1..Len(info) :
       LET r1 == cancel(Structures, h)
           r2 == cancel(r1.s, h)
       IN  /\ Pending(h) => r1.ret
           /\ ~r2.ret
           /\ r2.s = r1.s
  /\ \A i, j \in DOMAIN trace :
       (i < j /\ IsCancel(trace[i]) /\ IsCancel(trace[j])
          /\ trace[i].n = trace[j].n)
         => trace[j].msg = "false"
  /\ \A k \in DOMAIN trace :
       ( /\ IsCancel(trace[k])
         /\ info[trace[k].n].fn = "victim"
         /\ \A i \in 1..(k - 1) : ~IsCancel(trace[i]) )
         => trace[k].msg = "true"

\* the victim has been cancelled twice: true, then false
C12_Witness ==
  /\ script = "cancel"
  /\ Printed("cancelled twice")
  /\ \E i, j \in DOMAIN trace :
       /\ i < j
       /\ IsCancel(trace[i]) /\ IsCancel(trace[j])
       /\ trace[i].n = trace[j].n
       /\ trace[i].msg = "true" /\ trace[j].msg = "false"

(* C13: when a callback throws, or emits 'error' on an emitter without an
   'error' listener, and no uncaught-error handler is registered, the loop is
   halted at once: the failure is the last thing that happens, no callback or
   microtask starts afterwards and the rest of the failing callback does not
   run, although callbacks are still queued. *)
C13_UncaughtErrorHaltsLoop ==
  /\ \A k \in DOMAIN trace :
       trace[k].msg = "uncaught"
         => (k = Len(trace) /\ state = "Halted" /\ running = None)
  /\ state = "Halted" => trace[Len(trace)].msg = "uncaught"
  /\ ~Printed("after the failure")
  /\ ~Printed("callback after the failure")

\* the thrower emitted an unheard 'error' while a timer callback, an
\* immediate and a microtask were still queued
C13_Witness ==
  /\ script = "emitError"
  /\ state = "Halted"
  /\ queue["Timers"] # << >>
  /\ queue["Check"] # << >>
  /\ tickQ # << >>

(* C14: the current phase only ever changes to its successor in the cyclic
   order Timers, PendingCompletions, Poll, Check, CloseCallbacks, Timers, ...
   (from no phase, before run(), to Timers), whether or not the phase entered
   has anything queued; the ring pass number grows by one exactly when
   Timers is entered, and the phase changes only between callbacks. *)
C14_PhaseRingOrderFixed ==
  [][ /\ phase' # phase
         => /\ phase' = (IF phase = 5 THEN 1 ELSE phase + 1)
            /\ running = None
            /\ Phases[phase'] =
                 <<"Timers", "PendingCompletions", "Poll", "Check",
                   "CloseCallbacks">>[phase']
      /\ pass' # pass => (pass' = pass + 1 /\ phase' = 1 /\ phase # 1)
      /\ (phase' = 1 /\ phase # 1) => pass' = pass + 1 ]_vars

\* in its second pass the ring is in PendingCompletions, whose queue is empty
C14_Witness ==
  /\ pass = 2
  /\ PhaseName = "PendingCompletions"
  /\ queue["PendingCompletions"] = << >>
  /\ Alive

(* C15: a Promise callback starts only when the nextTick queue is empty; of
   two microtasks submitted by the same callback, or by microtasks of the same
   drain, a nextTick callback starts before a Promise callback, also when the
   Promise callback was submitted first.  In the scripts: the nextTick print
   precedes the Promise print. *)
C15_NextTickBeforePromise ==
  /\ (running # None /\ pc = 1 /\ Kind(running) = "promiseThen")
       => tickQ = << >>
  /\ \A t, p \in 1..Len(info) :
       ( /\ Kind(t) = "nextTick" /\ Kind(p) = "promiseThen"
         /\ \/ info[t].parent = info[p].parent
            \/ /\ Kind(info[t].parent) = "nextTick"
               /\ info[info[t].parent].parent = info[p].parent
         /\ Started(p) )
         => StartedBefore(t, p)
  /\ PrintedBefore("from process.nextTick", "from a resolved Promise (microtask)")
  /\ PrintedBefore("nextTick", "Promise")
  /\ PrintedBefore("nested nextTick callback executing",
                   "Promise callback executing")

\* the Promise callback submitted first has run, after both nextTick callbacks
C15_Witness ==
  /\ script = "microtasks"
  /\ Printed("Promise callback executing")
  /\ \E t, p \in 1..Len(info) :
       /\ Kind(t) = "nextTick" /\ Kind(p) = "promiseThen"
       /\ p < t
       /\ StartedBefore(t, p)

----------------------------------------------------------------------------
(* Claims about the string utilities, satisfies and the circular require *)

Returned(fn) == call.fn = fn /\ call.done

\* C16: truncate returns str unchanged when str.length <= maxLength, and
\* the two calls of the tests return what the tests expect:
\* truncate(longStr, 20) is 'This is a very long...' and truncate of the
\* string longer than thirty characters with the default length is
\* 'This is a string that is longer...'.
C16_TruncateAsTestsExpect ==
  Returned("truncate") =>
    LET str == call.args[1]
        maxLength == IF Len(call.args) > 1 THEN call.args[2]
                                           ELSE DefaultMaxLength
    IN  /\ Len(str) <= maxLength => call.result = str
        /\ Len(str) > maxLength =>
              \E k \in 0..(Len(str) - 1) :
                call.result = SubSeq(str, 1, k) \o << ".", ".", "." >>
        /\ call.args = << longStr, 20 >> => call.result = longStrTruncated
        /\ call.args = << longerThanThirty >> =>
              call.result = longerThanThirtyTruncated

\* C17: slugify returns a lower-case slug of word characters and single
\* hyphens only: no whitespace, no special character, no two consecutive
\* hyphens, no leading or trailing hyphen; slugify of the slug is the slug;
\* and the slugs of the four test strings are those the tests expect.
C17_SlugifyShapeAndIdempotent ==
  Returned("slugify") =>
    LET slug == call.result
    IN  /\ \A i \in 1..Len(slug) :
              /\ IsWordChar(slug[i]) \/ slug[i] = "-"
              /\ slug[i] \notin Range(UpperCaseLetters)
              /\ ~IsWhitespace(slug[i])
        /\ \A i \in 1..(Len(slug) - 1) : ~(slug[i] = "-" /\ slug[i + 1] = "-")
        /\ slug # << >> => slug[1] # "-" /\ slug[Len(slug)] # "-"
        /\ slugify(slug) = slug
        /\ call.args = << testString >> => slug = testStringSlug
        /\ call.args = << productName >> => slug = productNameSlug
        /\ call.args = << multipleSpaces >> => slug = multipleSpacesSlug
        /\ call.args = << trimHyphens >> => slug = trimHyphensSlug

\* slugify has returned for an input with upper-case letters, whitespace
\* runs, special characters, a hyphen run and hyphens at both ends
C17_Witness ==
  /\ Returned("slugify")
  /\ call.args = << multipleSpaces >>
  /\ call.result = multipleSpacesSlug

\* C18: satisfies(v, '^M.m.p') returns YES exactly for >=M.m.p <(M+1).0.0
\* when M>0, for >=0.m.p <0.(m+1).0 when M=0 and m>0, and for
\* >=0.0.p <0.0.(p+1) when M=m=0; it returns NO for the other versions.
C18_CaretRange ==
  (Returned("satisfies") /\ call.args[2] \in CaretRanges) =>
    LET base == split(Tail(call.args[2]), ".")
        v == split(call.args[1], ".")
        M == Number(base[1])
        m == Number(base[2])
        p == Number(base[3])
        a == Number(v[1])
        b == Number(v[2])
        c == Number(v[3])
        inRange ==
          IF M > 0 THEN a = M /\ (b > m \/ (b = m /\ c >= p))
          ELSE IF m > 0 THEN a = 0 /\ b = m /\ c >= p
          ELSE a = 0 /\ b = 0 /\ c = p
    IN  call.result = (IF inRange THEN YES ELSE NO)

\* C19: satisfies(v, range) with an x-range returns YES for every version
\* whose non-x parts equal those of the range and NO for the others.
C19_XRange ==
  (Returned("satisfies") /\ call.args[2] \in XRanges) =>
    LET parts == split(call.args[2], ".")
        vParts == split(call.args[1], ".")
        matches == \A i \in 1..3 : parts[i] = << "x" >> \/ parts[i] = vParts[i]
    IN  call.result = (IF matches THEN YES ELSE NO)

Lines(text) == {i \in 1..Len(console) : console[i].text = text}

Logged(text) == Lines(text) # {}

LineOf(text) == CHOOSE i \in Lines(text) : TRUE

LoggedValue(text) == console[LineOf(text)].value

\* the module is waiting at its require of another module
SuspendedAtRequire(module) ==
  \E i \in 1..(Len(frames) - 1) :
    /\ frames[i].module = module
    /\ frames[i].fn = "body"
    /\ Code(frames[i])[frames[i].pc].op = "require"

BodyRunning(module) ==
  \E i \in 1..Len(frames) : frames[i].module = module /\ frames[i].fn = "body"

\* C20: the runner's require of A starts A's body, which suspends at
\* require('./b'); B's body runs to completion while A is suspended; B's
\* require('./a') returns at once A's incomplete exports, an empty object
\* without greetFromA, and does not execute A again; A resumes with B fully
\* loaded and greetFromB a function; each module body executes exactly once
\* and loading terminates.
C20_CircularRequire ==
  frames # << >> \/ console # << >> =>
    /\ \* loading never gets stuck and the require stack stays bounded
       frames # << >> => ENABLED LibNext
    /\ Len(frames) <= Cardinality(Modules)
    /\ \* each module body starts at most once, and once when loading is over
       \A text \in {"Module A: Start of execution",
                     "Module B: Start of execution"} :
         /\ Cardinality(Lines(text)) <= 1
         /\ frames = << >> => Cardinality(Lines(text)) = 1
    /\ \* B's body runs only while A is suspended at its require
       BodyRunning("b") => SuspendedAtRequire("a")
    /\ Logged("Module B: Start of execution") =>
         /\ Logged("Module A: Start of execution")
         /\ LineOf("Module A: Start of execution")
              < LineOf("Module B: Start of execution")
    /\ \* from B's start to B's end every line is B's
       Logged("Module B: Start of execution") =>
         \A i \in LineOf("Module B: Start of execution")..Len(console) :
           (Logged("Module B: End of execution")
              => i <= LineOf("Module B: End of execution"))
             => console[i].module = "b"
    /\ \* B's require returned at once: nothing ran between the two lines
       Logged("Module B: After requiring module A") =>
         LineOf("Module B: After requiring module A")
           = LineOf("Module B: Start of execution") + 1
    /\ \* what B got is empty and has no greetFromA
       Logged("Module A contents") => LoggedValue("Module A contents") = {}
    /\ Logged("Is module A's function available?") =>
         LoggedValue("Is module A's function available?") = {FALSE}
    /\ locals["b"] # 0 => heap[locals["b"]] = {}
    /\ \* A resumes only after B has loaded, and sees greetFromB
       Logged("Module A: After exports definition") =>
         /\ Logged("Module B: End of execution")
         /\ cache["b"].loaded
         /\ HasFunction(locals["a"], "greetFromB")
    /\ Logged("Is module B's function available?") =>
         LoggedValue("Is module B's function available?") = {TRUE}
    /\ frames = << >> => \A module \in Modules : cache[module].loaded

\* node runner.js has run to its end: both bodies ran, B saw A's empty
\* exports and the runner called greetFromA
C20_Witness ==
  /\ frames = << >>
  /\ Logged("Module A contents")
  /\ Logged("Module A: End of execution")
  /\ Logged("Hello from module A!")

----------------------------------------------------------------------------
(* Claims about the loggers, the TaskManager and the DataProcessor *)

\* C21: getInstance() returns the same instance on every call, getHistory()
\* gives the same entries through every reference obtained, a log through
\* one reference adds its entry to the history seen through all, and a
\* clearHistory through one reference empties the history seen through all.
C21_SingletonSharedHistory ==
  /\ [](\A i, j \in 1..Len(references) :
          /\ references[i] = references[j]
          /\ references[i] = instance
          /\ getHistory(references[i]) = getHistory(references[j]))
  /\ [][/\ clearHistory =>
             \A i \in 1..Len(references) : getHistory(references[i])' = << >>
        /\ log =>
             \A i \in 1..Len(references) :
               /\ Len(getHistory(references[i])') = Len(logHistory) + 1
               /\ SubSeq(getHistory(references[i])', 1, Len(logHistory))
                    = logHistory]_vars

\* two references were obtained, an info message was logged and then a
\* warn message, as usage.js does before it clears the history
C21_Witness ==
  /\ Len(references) >= 2
  /\ Len(logHistory) = 2
  /\ logHistory[1].level = << "I", "N", "F", "O" >>
  /\ logHistory[2].level = << "W", "A", "R", "N" >>

\* the severity order error > warn > info > debug
Severity == [error |-> 4, warn |-> 3, info |-> 2, debug |-> 1]

\* the levels of the calls made on a logger, in order
CallsOn(logger) ==
  LET mine == SelectSeq(emitted, LAMBDA e : e.emitter = "logger"
                                            /\ e.args = << logger >>)
  IN  [i \in 1..Len(mine) |-> mine[i].event]

\* the tags of the lines a logger wrote, in order
LinesOf(logger) ==
  LET mine == SelectSeq(output, LAMBDA e : e.logger = logger)
  IN  [i \in 1..Len(mine) |-> mine[i].tag]

TagOf(level) ==
  CASE level = "error" -> "ERROR"
    [] level = "warn" -> "WARN"
    [] level = "info" -> "INFO"
    [] level = "debug" -> "DEBUG"

\* C22: a logger made with level L writes the message of a call of level m
\* if and only if m is at or above the severity of L in the order
\* error > warn > info > debug, and getLogCount() is the number of lines
\* the logger has written.
C22_LevelFilterAndCount ==
  \A logger \in 1..Len(loggers) :
    LET L == loggers[logger].level
        passing == SelectSeq(CallsOn(logger),
                             LAMBDA m : Severity[m] >= Severity[L])
    IN  /\ LinesOf(logger) = [i \in 1..Len(passing) |-> TagOf(passing[i])]
        /\ getLogCount(logger) = Len(LinesOf(logger))

\* a level-'error' logger was called with info and with error and counts one
\* line, and a level-'debug' logger wrote a debug line
C22_Witness ==
  /\ Len(loggers) = 2
  /\ loggers[1].level = "error"
  /\ loggers[2].level = "debug"
  /\ CallsOn(1) = << "error", "info" >>
  /\ getLogCount(1) = 1
  /\ CallsOn(2) = << "debug" >>
  /\ getLogCount(2) = 1

\* the positions in emitted of an event of an emitter
At(emitter, event) ==
  {i \in 1..Len(emitted) :
     emitted[i].emitter = emitter /\ emitted[i].event = event}

\* the positions in emitted of an event of the task with an index
TaskAt(event, index) ==
  {i \in At("task", event) : emitted[i].args = << index >>}

PendingTimers(fn) == {i \in 1..Len(timers) : timers[i].fn = fn}

\* the manager's run was started and no task is still to call back
RunOver ==
  /\ program = "emitters"
  /\ Has("manager", "start")
  /\ PendingTimers("task") = {}

\* C23: in sequential mode the tasks are executed one at a time in the order
\* they were added: execute() of task i+1 is called only after task i has
\* emitted 'success' or 'error', a failing task does not stop the sequence,
\* and every added task is executed exactly once.
C23_SequentialOrder ==
  (program = "emitters" /\ mode = "sequential") =>
    LET settled(index) == TaskAt("success", index) \cup TaskAt("error", index)
    IN  /\ \A index \in 0..(Len(tasks) - 1) :
              /\ Cardinality(TaskAt("execute", index)) <= 1
              /\ \A i \in TaskAt("execute", index) :
                    /\ index > 0 =>
                          \E j \in settled(index - 1) : j < i
                    /\ \A other \in 0..(Len(tasks) - 1) :
                          other < index =>
                            \E j \in TaskAt("execute", other) : j < i
        /\ Cardinality(PendingTimers("task")) <= 1
        /\ Cardinality(PendingTimers("task")) =
              Cardinality({index \in 0..(Len(tasks) - 1) :
                             /\ TaskAt("execute", index) # {}
                             /\ settled(index) = {}})
        /\ RunOver =>
              \A index \in 0..(Len(tasks) - 1) :
                /\ Cardinality(TaskAt("execute", index)) = 1
                /\ Cardinality(settled(index)) = 1

\* the script's own sequential run is over: the third task failed and the
\* fourth was executed after it
C23_Witness ==
  /\ RunOver
  /\ mode = "sequential"
  /\ Len(tasks) = Len(sequentialTasks)
  /\ \A i \in 1..Len(tasks) : tasks[i].name = sequentialTasks[i].name
  /\ TaskAt("error", 2) # {}
  /\ TaskAt("success", 3) # {}

\* C24: a run of the TaskManager, sequential or parallel, emits 'complete'
\* exactly once, after every task has finished, with a payload that holds
\* one result or one error per task.
C24_CompleteExactlyOnce ==
  program = "emitters" =>
    /\ Cardinality(At("manager", "complete")) <= 1
    /\ \A i \in At("manager", "complete") :
         /\ \A index \in 0..(Len(tasks) - 1) :
              \E j \in TaskAt("success", index) \cup TaskAt("error", index) :
                j < i
         /\ Defined(emitted[i].args[1]) + Defined(emitted[i].args[2])
              = Len(tasks)
         /\ DOMAIN emitted[i].args[1] \cap DOMAIN emitted[i].args[2] = {}
    /\ RunOver => Cardinality(At("manager", "complete")) = 1

\* the events of the processor, in order
ProcessorEvents == SelectSeq(emitted, LAMBDA e : e.emitter = "processor")

\* C25: one call of processData on data of length n emits 'start' first,
\* then for the indices 0..n-1 in ascending order a 'data' followed by a
\* 'progress' that never decreases and never exceeds 100, with at most one
\* processing timer pending at any time, and finally 'complete' exactly once
\* with processed = n; for n = 0 'complete' with 0 is emitted before
\* processData returns.
C25_ProcessorEventOrder ==
  (program = "emitters" /\ Has("processor", "start")) =>
    LET n == Len(processor.data)
        P == ProcessorEvents
        k == processor.processed
        done == PendingTimers("chunk") = {}
    IN  /\ P[1].event = "start" /\ P[1].args = << n >>
        /\ k <= n
        /\ Len(P) = 1 + 2 * k + (IF done THEN 1 ELSE 0)
        /\ \A index \in 0..(k - 1) :
             /\ P[2 * index + 2].event = "data"
             /\ P[2 * index + 2].args[1] = index
             /\ P[2 * index + 3].event = "progress"
             /\ P[2 * index + 3].args[1] <= 100
             /\ index > 0 =>
                  P[2 * index + 1].args[1] <= P[2 * index + 3].args[1]
        /\ Cardinality(PendingTimers("chunk")) <= 1
        /\ done <=> k = n
        /\ done => /\ P[Len(P)].event = "complete"
                   /\ P[Len(P)].args = << n >>

\* the five items of sampleData were processed and 'complete' was emitted
C25_Witness ==
  /\ program = "emitters"
  /\ processor.data = sampleData
  /\ processor.processed = 5
  /\ At("processor", "complete") # {}
  /\ ProcessorEvents[11].args = << 100 >>

====
